---- MODULE Spec2Model ----
(***************************************************************************)
(* Model of the retrieval-and-generation path of the RAG chatbot backend   *)
(* (chatbot/backend/src): the /chat handler, RetrievalService and          *)
(* AnswerGenerationService.                                                *)
(*                                                                         *)
(* Texts are TLA+ strings; characters are one-character strings.           *)
(* Similarity scores are integers in units of 1/1000; boosted scores are   *)
(* integers in units of 1/10000 (so score * 1.1 is 11 * score and an       *)
(* unboosted score is 10 * score).  Confidence is measured in tenths.      *)
(***************************************************************************)
EXTENDS Integers, Sequences, FiniteSets, TLC

(***************************************************************************)
(* String helpers (Python str operations used by the code).                *)
(***************************************************************************)

\* s[i] for a 1-based index; "" outside the string
CharAt(s, i) == IF i >= 1 /\ i <= Len(s) THEN SubSeq(s, i, i) ELSE ""

\* the characters i..j of s, clamped to the string like a Python slice
Slice(s, i, j) ==
    LET lo == IF i < 1 THEN 1 ELSE i
        hi == IF j > Len(s) THEN Len(s) ELSE j
    IN  IF lo > hi THEN "" ELSE SubSeq(s, lo, hi)

UpperLetters == "ABCDEFGHIJKLMNOPQRSTUVWXYZ"

LowerLetters == "abcdefghijklmnopqrstuvwxyz"

Digits == {"0", "1", "2", "3", "4", "5", "6", "7", "8", "9"}

Whitespace == {" ", "\n", "\t", "\r"}

UpperSet == {CharAt(UpperLetters, i) : i \in 1..26}

LowerMap ==
    [c \in UpperSet |->
        CharAt(LowerLetters, CHOOSE i \in 1..26 : CharAt(UpperLetters, i) = c)]

\* str.lower() on one character
LowerChar(c) == IF c \in UpperSet THEN LowerMap[c] ELSE c

\* needle in haystack
Contains(haystack, needle) ==
    \E i \in 1..(Len(haystack) - Len(needle) + 1) :
        SubSeq(haystack, i, i + Len(needle) - 1) = needle

\* needle.lower() in haystack.lower(): lower() maps character by character,
\* so the lowered needle occurs at i iff the characters agree after lowering
ContainsLower(haystack, needle) ==
    \E i \in 1..(Len(haystack) - Len(needle) + 1) :
        \A j \in 1..Len(needle) :
            LowerChar(CharAt(haystack, i + j - 1)) = LowerChar(CharAt(needle, j))

RECURSIVE LStripIdx(_, _)
LStripIdx(s, i) ==
    IF i <= Len(s) /\ CharAt(s, i) \in Whitespace THEN LStripIdx(s, i + 1) ELSE i

RECURSIVE RStripIdx(_, _)
RStripIdx(s, j) ==
    IF j >= 1 /\ CharAt(s, j) \in Whitespace THEN RStripIdx(s, j - 1) ELSE j

\* str.strip()
Strip(s) == Slice(s, LStripIdx(s, 1), RStripIdx(s, Len(s)))

\* c repeated n times
RECURSIVE Rep(_, _)
Rep(c, n) ==
    IF n <= 0 THEN ""
    ELSE IF n = 1 THEN c
    ELSE Rep(c, n \div 2) \o Rep(c, n - (n \div 2))

RECURSIVE CollapseFrom(_, _, _)
CollapseFrom(s, i, inWs) ==
    IF i > Len(s) THEN ""
    ELSE IF CharAt(s, i) \in Whitespace
         THEN (IF inWs THEN "" ELSE " ") \o CollapseFrom(s, i + 1, TRUE)
         ELSE CharAt(s, i) \o CollapseFrom(s, i + 1, FALSE)

\* utils/validation.py sanitize_text: whitespace runs become one space, then
\* strip (the control characters it removes are outside the modelled alphabet)
sanitize_text(text) == Strip(CollapseFrom(text, 1, FALSE))

(***************************************************************************)
(* Passage identifiers and the Source model.                               *)
(***************************************************************************)

\* Python None, for values that are a tuple or a record otherwise
None == <<>>

RECURSIVE DigitRunEnd(_, _)
\* index of the first character at or after i that is not a digit
DigitRunEnd(s, i) ==
    IF i <= Len(s) /\ CharAt(s, i) \in Digits THEN DigitRunEnd(s, i + 1) ELSE i

DigitVal(c) == CHOOSE d \in 0..9 : CharAt("0123456789", d + 1) = c

RECURSIVE ParseNat(_)
\* int() of a string of decimal digits
ParseNat(s) ==
    IF Len(s) = 0 THEN 0
    ELSE 10 * ParseNat(Slice(s, 1, Len(s) - 1)) + DigitVal(CharAt(s, Len(s)))

\* utils/validation.py extract_passage_id_components:
\* re.match(r"^ch(\d+)-sec(\d+)-p(\d+)$", passage_id); in Python "$" also
\* matches just before one trailing newline.  Returns <<c, s, p>> or None.
extract_passage_id_components(passage_id) ==
    LET j1 == DigitRunEnd(passage_id, 3)
        j2 == DigitRunEnd(passage_id, j1 + 4)
        j3 == DigitRunEnd(passage_id, j2 + 2)
        n  == Len(passage_id)
    IN  IF /\ Slice(passage_id, 1, 2) = "ch"
           /\ j1 > 3
           /\ Slice(passage_id, j1, j1 + 3) = "-sec"
           /\ j2 > j1 + 4
           /\ Slice(passage_id, j2, j2 + 1) = "-p"
           /\ j3 > j2 + 2
           /\ \/ j3 = n + 1
              \/ j3 = n /\ CharAt(passage_id, n) = "\n"
        THEN << ParseNat(Slice(passage_id, 3, j1 - 1)),
                ParseNat(Slice(passage_id, j1 + 4, j2 - 1)),
                ParseNat(Slice(passage_id, j2 + 2, j3 - 1)) >>
        ELSE None

RECURSIVE IntToStr(_)
\* the decimal text an f-string gives a non-negative int
IntToStr(n) ==
    IF n < 10 THEN CharAt("0123456789", n + 1)
    ELSE IntToStr(n \div 10) \o CharAt("0123456789", (n % 10) + 1)

\* utils/chunking.py generate_passage_id:
\* f"ch{chapter_num}-sec{section_num}-p{page_num}"
generate_passage_id(chapter_num, section_num, page_num) ==
    "ch" \o IntToStr(chapter_num) \o "-sec" \o IntToStr(section_num)
         \o "-p" \o IntToStr(page_num)

\* maximum snippet length of a Source
SnippetMaxLength == 200

\* models/source.py Source: the field constraints pydantic enforces on
\* construction (pattern anchored at the very end of the string, chapter and
\* section non-empty, page None or >= 1, snippet of 1..200 characters).
\* page is <<>> for None and <<n>> for the integer n.
SourceValid(passage_id, chapter, section, page, snippet) ==
    /\ \/ passage_id = "selected-text"
       \/ /\ extract_passage_id_components(passage_id) # None
          /\ CharAt(passage_id, Len(passage_id)) # "\n"
    /\ Len(chapter) >= 1
    /\ Len(section) >= 1
    /\ page = None \/ page[1] >= 1
    /\ Len(snippet) >= 1
    /\ Len(snippet) <= SnippetMaxLength

Source(passage_id, chapter, section, page, snippet) ==
    [passage_id |-> passage_id, chapter |-> chapter, section |-> section,
     page |-> page, snippet |-> snippet]

\* index of the last " " among the first j characters, 0 if there is none
LastSpace(s, j) ==
    LET spaces == {i \in 1..j : CharAt(s, i) = " "}
    IN  IF spaces = {} THEN 0 ELSE CHOOSE i \in spaces : \A k \in spaces : k <= i

\* utils/chunking.py truncate_snippet:
\* text[: max_length - 3].rsplit(" ", 1)[0] + "...", the slice counting from
\* the end of the text when max_length - 3 is negative
truncate_snippet(text, max_length) ==
    IF Len(text) <= max_length THEN text
    ELSE LET head == IF max_length >= 3 THEN Slice(text, 1, max_length - 3)
                     ELSE Slice(text, 1, Len(text) + max_length - 3)
             k    == LastSpace(head, Len(head))
         IN  (IF k = 0 THEN head ELSE Slice(head, 1, k - 1)) \o "..."

(***************************************************************************)
(* RetrievalService.  A retrieved chunk is [id, score, payload]; a payload *)
(* is a record that holds only the keys that are present.                  *)
(***************************************************************************)

\* dict.get(key, default)
Get(payload, key, default) ==
    IF key \in DOMAIN payload THEN payload[key] ELSE default

\* settings.top_k_retrieval
top_k_retrieval == 10

\* settings.top_k_rerank
top_k_rerank == 5

\* settings.similarity_threshold, in units of 1/1000
similarity_threshold == 700

ChapterOf(chunk) == Get(chunk.payload, "chapter", "Unknown")

\* chapter_counts[chapter]
ChapterCount(chunks, chapter) ==
    Cardinality({i \in 1..Len(chunks) : ChapterOf(chunks[i]) = chapter})

\* index of the first chunk of a chapter: the insertion order of the dict keys
FirstIndex(chunks, chapter) ==
    CHOOSE i \in 1..Len(chunks) :
        /\ ChapterOf(chunks[i]) = chapter
        /\ \A j \in 1..(i - 1) : ChapterOf(chunks[j]) # chapter

\* variant: among the chapters with the maximal count, the one seen last
MostCommonChapterLast(chunks) ==
    LET chapters == {ChapterOf(chunks[i]) : i \in 1..Len(chunks)}
        best == {c \in chapters :
                    \A d \in chapters : ChapterCount(chunks, d) <= ChapterCount(chunks, c)}
    IN  CHOOSE c \in best :
            \A d \in best : FirstIndex(chunks, c) >= FirstIndex(chunks, d)

\* max(chapter_counts, key=chapter_counts.get): the first key, in insertion
\* order, whose count is maximal
MostCommonChapter(chunks) ==
    LET chapters == {ChapterOf(chunks[i]) : i \in 1..Len(chunks)}
        best == {c \in chapters :
                    \A d \in chapters : ChapterCount(chunks, d) <= ChapterCount(chunks, c)}
    IN  CHOOSE c \in best :
            \A d \in best : FirstIndex(chunks, c) <= FirstIndex(chunks, d)

\* the boost loop: chunk_copy["boosted_score"] = score * 1.1 or score
Boost(chunks) ==
    LET most_common_chapter == MostCommonChapter(chunks)
    IN  [i \in 1..Len(chunks) |->
            [id |-> chunks[i].id, score |-> chunks[i].score,
             payload |-> chunks[i].payload,
             boosted_score |-> IF ChapterOf(chunks[i]) = most_common_chapter
                               THEN 11 * chunks[i].score
                               ELSE 10 * chunks[i].score]]

RECURSIVE InsertDesc(_, _)
\* insert x behind every element whose boosted score is >= that of x
InsertDesc(sorted, x) ==
    IF sorted = <<>> THEN <<x>>
    ELSE IF Head(sorted).boosted_score >= x.boosted_score
         THEN <<Head(sorted)>> \o InsertDesc(Tail(sorted), x)
         ELSE <<x>> \o sorted

RECURSIVE SortDesc(_)
\* sorted(boosted_chunks, key=boosted_score, reverse=True): stable
SortDesc(chunks) ==
    IF chunks = <<>> THEN <<>>
    ELSE InsertDesc(SortDesc(SubSeq(chunks, 1, Len(chunks) - 1)), chunks[Len(chunks)])

\* variant: the list is cut to top_k_rerank before it is sorted
rerank_truncate_first(chunks) ==
    IF chunks = <<>> THEN <<>>
    ELSE LET boosted == Boost(chunks)
         IN  SortDesc(SubSeq(boosted, 1, IF Len(boosted) < top_k_rerank
                                         THEN Len(boosted) ELSE top_k_rerank))

\* services/retrieval_service.py rerank_by_section_proximity
rerank_by_section_proximity(chunks) ==
    IF chunks = <<>> THEN <<>>
    ELSE LET reranked == SortDesc(Boost(chunks))
         IN  SubSeq(reranked, 1, IF Len(reranked) < top_k_rerank
                                 THEN Len(reranked) ELSE top_k_rerank)

\* get_sort_key of sort_by_document_order
get_sort_key(chunk) ==
    LET components ==
            extract_passage_id_components(Get(chunk.payload, "passage_id", "ch0-sec0-p0"))
    IN  IF components # None THEN components ELSE <<999, 999, 999>>

\* tuple comparison a <= b
TupleLeq(a, b) ==
    \/ a[1] < b[1]
    \/ a[1] = b[1] /\ a[2] < b[2]
    \/ a[1] = b[1] /\ a[2] = b[2] /\ a[3] <= b[3]

RECURSIVE InsertAsc(_, _)
InsertAsc(sorted, x) ==
    IF sorted = <<>> THEN <<x>>
    ELSE IF TupleLeq(get_sort_key(Head(sorted)), get_sort_key(x))
         THEN <<Head(sorted)>> \o InsertAsc(Tail(sorted), x)
         ELSE <<x>> \o sorted

RECURSIVE sort_by_document_order(_)
\* services/retrieval_service.py sort_by_document_order: sorted(chunks, key=get_sort_key)
sort_by_document_order(chunks) ==
    IF chunks = <<>> THEN <<>>
    ELSE InsertAsc(sort_by_document_order(SubSeq(chunks, 1, Len(chunks) - 1)),
                   chunks[Len(chunks)])

\* the Source arguments chunks_to_sources builds from one payload
SourceArgs(payload) ==
    [passage_id |-> Get(payload, "passage_id", "unknown"),
     chapter    |-> Get(payload, "chapter", "Unknown Chapter"),
     section    |-> Get(payload, "section", "Unknown Section"),
     page       |-> Get(payload, "page", None),
     snippet    |-> truncate_snippet(Get(payload, "text", ""), SnippetMaxLength)]

RECURSIVE chunks_to_sources(_)
\* services/retrieval_service.py chunks_to_sources: a chunk whose Source
\* fails validation is logged and skipped
chunks_to_sources(chunks) ==
    IF chunks = <<>> THEN <<>>
    ELSE LET a == SourceArgs(Head(chunks).payload)
         IN  (IF SourceValid(a.passage_id, a.chapter, a.section, a.page, a.snippet)
              THEN <<a>> ELSE <<>>) \o chunks_to_sources(Tail(chunks))

RECURSIVE get_context_text(_)
\* services/retrieval_service.py get_context_text:
\* "\n\n".join(f"[{passage_id}] {text}")
get_context_text(chunks) ==
    IF chunks = <<>> THEN ""
    ELSE LET payload == Head(chunks).payload
             part == "[" \o Get(payload, "passage_id", "unknown") \o "] "
                         \o Get(payload, "text", "")
         IN  IF Len(chunks) = 1 THEN part
             ELSE part \o "\n\n" \o get_context_text(Tail(chunks))

(***************************************************************************)
(* AnswerGenerationService.                                                *)
(***************************************************************************)

\* Optional values: None is <<>>, a present value x is <<x>>
Some(x) == <<x>>

BOOK_WIDE == "book-wide"

SELECTED_TEXT == "selected-text"

\* settings.confidence_threshold, in tenths
confidence_threshold == 6

\* should_refuse: minimum length of the trimmed context
min_context_length == 100

\* variant: one template for both modes
build_prompt_shared(query, context, mode, user_context) ==
    [header |-> "**BOOK-WIDE MODE**: Answer using ONLY the retrieved book passages below. DO NOT use any other knowledge.\n\n**Retrieved Context:**\n",
     body |-> context,
     question |-> "\n\n**User Question:**\n",
     query |-> query,
     instructions |-> "\n\n**Instructions:**\n- Answer ONLY from the retrieved passages above\n- Cite specific passages using [passage_id] notation\n"]

\* services/answer_generation_service.py build_prompt: the f-string as its
\* literal parts (header, question, instructions) and its two slots
\* (body, query)
build_prompt(query, context, mode, user_context) ==
    IF mode = SELECTED_TEXT
    THEN [header |-> "**SELECTED TEXT MODE**: Answer using ONLY the user-selected text below. DO NOT use any other knowledge.\n\n**User-Selected Text:**\n",
          body |-> IF user_context = None THEN "None" ELSE user_context[1],
          question |-> "\n\n**User Question:**\n",
          query |-> query,
          instructions |-> "\n\n**Instructions:**\n- Answer ONLY from the selected text above\n- If the selected text doesn't contain the answer, say: \"The selected text does not contain information about [topic].\"\n- Cite the selected text as [selected-text]\n"]
    ELSE [header |-> "**BOOK-WIDE MODE**: Answer using ONLY the retrieved book passages below. DO NOT use any other knowledge.\n\n**Retrieved Context:**\n",
          body |-> context,
          question |-> "\n\n**User Question:**\n",
          query |-> query,
          instructions |-> "\n\n**Instructions:**\n- Answer ONLY from the retrieved passages above\n- Cite specific passages using [passage_id] notation\n- If the retrieved context doesn't contain the answer, say: \"I cannot answer this question based on the provided book content. The available context does not contain sufficient information about [topic].\"\n"]

\* the prompt as the one string handed to the provider
PromptText(p) == p.header \o p.body \o p.question \o p.query \o p.instructions

\* refusal_patterns of generate_answer
refusal_patterns ==
    { "I cannot answer this question",
      "The selected text does not contain",
      "The available context does not contain",
      "insufficient information" }

\* variant: the patterns matched without lowering
MatchesRefusalCaseSensitive(answer) ==
    \E pattern \in refusal_patterns : Contains(answer, pattern)

\* any(pattern.lower() in answer.lower() for pattern in refusal_patterns)
MatchesRefusal(answer) ==
    \E pattern \in refusal_patterns : ContainsLower(answer, pattern)

\* variant: the ends of the length band are left out
estimate_confidence_open_band(answer, finish_reason, context) ==
    LET base == 5
        cite == IF \/ Contains(answer, "[ch")
                   \/ Contains(answer, "[sec")
                   \/ Contains(answer, "[selected-text]")
                THEN 2 ELSE 0
        len  == IF 50 < Len(answer) /\ Len(answer) < 500 THEN 2
                ELSE IF Len(answer) > 500 THEN 1 ELSE 0
        fin  == IF finish_reason = "stop" THEN 1 ELSE 0
        total == base + cite + len + fin
    IN  IF total > 10 THEN 10 ELSE total

\* services/answer_generation_service.py _estimate_confidence, in tenths
estimate_confidence(answer, finish_reason, context) ==
    LET base == 5
        cite == IF \/ Contains(answer, "[ch")
                   \/ Contains(answer, "[sec")
                   \/ Contains(answer, "[selected-text]")
                THEN 2 ELSE 0
        len  == IF 50 <= Len(answer) /\ Len(answer) <= 500 THEN 2
                ELSE IF Len(answer) > 500 THEN 1 ELSE 0
        fin  == IF finish_reason = "stop" THEN 1 ELSE 0
        total == base + cite + len + fin
    IN  IF total > 10 THEN 10 ELSE total

\* services/answer_generation_service.py should_refuse: <<refuse, reason>>
should_refuse(confidence, context, query) ==
    IF confidence < confidence_threshold
    THEN <<TRUE, Some("Confidence below threshold")>>
    ELSE IF context = "" \/ Len(Strip(context)) < min_context_length
         THEN <<TRUE, Some("Insufficient context (too short)")>>
         ELSE <<FALSE, None>>

\* What the generation provider does with one call:
\*   [kind |-> "raise", error |-> message]        the call raises
\*   [kind |-> "nochoices"]                       response.choices is empty
\*   [kind |-> "nocontent", finish_reason |-> f]  message.content is None
\*   [kind |-> "text", content |-> t, finish_reason |-> f]
GenerationError(outcome) ==
    IF outcome.kind = "raise" THEN outcome.error
    ELSE IF outcome.kind = "nochoices" THEN "list index out of range"
    ELSE "'NoneType' object has no attribute 'strip'"

\* the result tuple of generate_answer
Result(answer, confidence, refused, refusal_reason) ==
    [answer |-> answer, confidence |-> confidence, refused |-> refused,
     refusal_reason |-> refusal_reason]

\* variant: the error branch reports str(e) alone as the reason
generate_answer_bare_reason(query, context, mode, user_context, outcome) ==
    IF outcome.kind = "text"
    THEN LET answer == Strip(outcome.content)
             refused == MatchesRefusal(answer)
         IN  IF refused
             THEN Result(answer, 0, TRUE, Some("Insufficient context to answer question"))
             ELSE Result(answer, estimate_confidence(answer, outcome.finish_reason, context),
                         FALSE, None)
    ELSE Result("An error occurred while generating the answer. Please try again.",
                0, TRUE, Some(GenerationError(outcome)))

\* services/answer_generation_service.py generate_answer, given the
\* provider's outcome for the one completion call it makes
generate_answer(query, context, mode, user_context, outcome) ==
    IF outcome.kind = "text"
    THEN LET answer == Strip(outcome.content)
             refused == MatchesRefusal(answer)
         IN  IF refused
             THEN Result(answer, 0, TRUE, Some("Insufficient context to answer question"))
             ELSE Result(answer, estimate_confidence(answer, outcome.finish_reason, context),
                         FALSE, None)
    ELSE Result("An error occurred while generating the answer. Please try again.",
                0, TRUE, Some("Error: " \o GenerationError(outcome)))

(***************************************************************************)
(* The /chat handler (api/routes/chat.py).                                 *)
(***************************************************************************)

REFUSAL_MESSAGE ==
    "I cannot answer this question based on the provided book content. The available context does not contain sufficient information about the requested topic. Please try:\n- Rephrasing your question\n- Selecting specific text from the book (selected-text mode)\n- Asking about topics covered in the book"

\* utils/validation.py validate_query_text: is_valid
validate_query_text(text) ==
    /\ text # ""
    /\ Len(text) >= 1
    /\ Len(text) <= 2000

\* variant: no check of the context in book-wide mode
validate_context_text_lax(context, mode) ==
    IF mode = SELECTED_TEXT
    THEN /\ context # None
         /\ context[1] # ""
         /\ Len(context[1]) >= 1
         /\ Len(context[1]) <= 10000
    ELSE TRUE

\* utils/validation.py validate_context_text: is_valid
validate_context_text(context, mode) ==
    IF mode = SELECTED_TEXT
    THEN /\ context # None
         /\ context[1] # ""
         /\ Len(context[1]) >= 1
         /\ Len(context[1]) <= 10000
    ELSE IF mode = BOOK_WIDE
         THEN context = None \/ context[1] = ""
         ELSE TRUE

\* ChatResponse
ChatResponse(answer, sources, refused, refusal_reason, confidence, mode) ==
    [answer |-> answer, sources |-> sources, refused |-> refused,
     refusal_reason |-> refusal_reason, confidence |-> confidence, mode |-> mode]

\* the response of the "if not chunks" branch
NoChunksResponse(mode) ==
    ChatResponse(REFUSAL_MESSAGE, <<>>, TRUE,
                 Some("No relevant content found in book"), 0, mode)

\* the response of the "except Exception" branch
InternalErrorResponse(mode, error) ==
    ChatResponse("An error occurred while processing your question. Please try again.",
                 <<>>, TRUE, Some("Internal error: " \o error), 0, mode)

\* the snippet expression of the selected-text branch:
\* context[:200] + "..." if len(context) > 200 else context
SelectedSnippet(context) ==
    IF Len(context) > 200 THEN Slice(context, 1, 200) \o "..." ELSE context

(***************************************************************************)
(* ContentExtractor.  A Markdown file is [file_path, lines], lines being   *)
(* content.split("\n"); a heading of the inputs has its title on its own   *)
(* line, so the patterns are matched line by line.                         *)
(***************************************************************************)

\* the least and the greatest element of a non-empty set of integers
Min(S) == CHOOSE x \in S : \A y \in S : x <= y

Max(S) == CHOOSE x \in S : \A y \in S : x >= y

RECURSIVE JoinLines(_)
\* "\n".join(lines)
JoinLines(lines) ==
    IF lines = <<>> THEN ""
    ELSE IF Len(lines) = 1 THEN lines[1]
    ELSE lines[1] \o "\n" \o JoinLines(Tail(lines))

\* the line holds nothing but whitespace
IsBlank(line) == LStripIdx(line, 1) > Len(line)

\* the line is "---" followed by whitespace only
IsRule(line) == Slice(line, 1, 3) = "---" /\ LStripIdx(line, 4) > Len(line)

\* index of the first c in s; Len(s) + 1 when there is none
IndexOf(s, c) ==
    LET hits == {i \in 1..Len(s) : CharAt(s, i) = c}
    IN  IF hits = {} THEN Len(s) + 1 ELSE Min(hits)

\* the dict built from the "key: value" lines; a later line overrides
FrontmatterDict(yaml) ==
    LET keyed == {i \in 1..Len(yaml) : IndexOf(yaml[i], ":") <= Len(yaml[i])}
        Key(i) == Strip(Slice(yaml[i], 1, IndexOf(yaml[i], ":") - 1))
        Value(i) == Strip(Slice(yaml[i], IndexOf(yaml[i], ":") + 1, Len(yaml[i])))
    IN  [key \in {Key(i) : i \in keyed} |->
            Value(Max({i \in keyed : Key(i) = key}))]

\* services/content_extractor.py extract_frontmatter:
\* re.match(r"^---\s*\n(.*?)\n---\s*\n(.*)$", content, re.DOTALL).  The
\* greedy \s* of the opening takes the blank lines that follow it when a
\* closing rule still follows; the lazy group ends at the first closing rule
\* that has a line after it; the \s* of the closing takes the blank lines
\* that follow it.
extract_frontmatter(lines) ==
    LET n == Len(lines)
        nonBlank == {i \in 2..n : ~IsBlank(lines[i])}
        firstText == IF nonBlank = {} THEN n ELSE Min(nonBlank)
        Closers(a) == {k \in (a + 1)..(n - 1) : IsRule(lines[k])}
        starts == {a \in 2..firstText : Closers(a) # {}}
    IN  IF n >= 1 /\ IsRule(lines[1]) /\ starts # {}
        THEN LET a == Max(starts)
                 k == Min(Closers(a))
                 after == {i \in (k + 1)..n : ~IsBlank(lines[i])}
                 b == IF after = {} THEN n ELSE Min(after)
             IN  [frontmatter |-> FrontmatterDict(SubSeq(lines, a, k - 1)),
                  body |-> SubSeq(lines, b, n)]
        ELSE [frontmatter |-> <<>>, body |-> lines]

\* the lowered characters i..(i + Len(word) - 1) of s are word
LowerAt(s, i, word) ==
    /\ i + Len(word) - 1 <= Len(s)
    /\ \A j \in 1..Len(word) : LowerChar(CharAt(s, i + j - 1)) = CharAt(word, j)

RECURSIVE SepRunEnd(_, _)
\* index of the first character at or after i outside [:\-\s]
SepRunEnd(s, i) ==
    IF i <= Len(s) /\ CharAt(s, i) \in ({":", "-"} \cup Whitespace)
    THEN SepRunEnd(s, i + 1) ELSE i

\* the groups (N, title) of r"^#\s+Chapter\s+(\d+)[:\-\s]+(.+)$" on one line
\* under re.IGNORECASE, or None
MatchChapterHeading(line) ==
    LET w  == LStripIdx(line, 2)
        d  == LStripIdx(line, w + 7)
        j  == DigitRunEnd(line, d)
        e  == SepRunEnd(line, j)
        t  == IF e > Len(line) THEN e - 1 ELSE e
    IN  IF /\ CharAt(line, 1) = "#"
           /\ w > 2
           /\ LowerAt(line, w, "chapter")
           /\ d > w + 7
           /\ j > d
           /\ t > j
        THEN Some([num |-> Slice(line, d, j - 1), title |-> Slice(line, t, Len(line))])
        ELSE None

\* the groups (N, title) of r"^#\s+(\d+)\.\s+(.+)$" on one line, or None
MatchNumberedHeading(line) ==
    LET d  == LStripIdx(line, 2)
        j  == DigitRunEnd(line, d)
        e  == LStripIdx(line, j + 1)
        t  == IF e > Len(line) THEN e - 1 ELSE e
    IN  IF /\ CharAt(line, 1) = "#"
           /\ d > 2
           /\ j > d
           /\ CharAt(line, j) = "."
           /\ t > j + 1
        THEN Some([num |-> Slice(line, d, j - 1), title |-> Slice(line, t, Len(line))])
        ELSE None

\* Path.stem: the file name without directories and without its suffix
Stem(file_path) ==
    LET slashes == {i \in 1..Len(file_path) : CharAt(file_path, i) = "/"}
        name == IF slashes = {} THEN file_path
                ELSE Slice(file_path, Max(slashes) + 1, Len(file_path))
        dots == {i \in 2..Len(name) : CharAt(name, i) = "."}
    IN  IF dots = {} THEN name ELSE Slice(name, 1, Max(dots) - 1)

\* the digits group of re.search(r"chapter[-_](\d+)", filename, re.IGNORECASE)
\* or None
MatchChapterFilename(filename) ==
    LET hits == {i \in 1..Len(filename) :
                    /\ LowerAt(filename, i, "chapter")
                    /\ CharAt(filename, i + 7) \in {"-", "_"}
                    /\ CharAt(filename, i + 8) \in Digits}
    IN  IF hits = {} THEN None
        ELSE LET i == Min(hits)
             IN  Some(Slice(filename, i + 8, DigitRunEnd(filename, i + 8) - 1))

RECURSIVE Remove(_, _)
\* s.replace(old, "")
Remove(s, old) ==
    LET hits == {i \in 1..(Len(s) - Len(old) + 1) : Slice(s, i, i + Len(old) - 1) = old}
    IN  IF hits = {} THEN s
        ELSE Slice(s, 1, Min(hits) - 1)
                \o Remove(Slice(s, Min(hits) + Len(old), Len(s)), old)

\* s.strip("-_")
StripDashes(s) ==
    LET keep == {i \in 1..Len(s) : CharAt(s, i) \notin {"-", "_"}}
    IN  IF keep = {} THEN "" ELSE Slice(s, Min(keep), Max(keep))

\* the dict extract_chapter_info returns on a match
ChapterInfo(chapter_num, chapter_title, chapter_full) ==
    [chapter_num |-> chapter_num, chapter_title |-> chapter_title,
     chapter_full |-> chapter_full]

\* services/content_extractor.py extract_chapter_info: the first line
\* matching "# Chapter N: Title", else the first matching "# N. Title", else
\* the file name; None or <<the dict>>
extract_chapter_info(content, file_path) ==
    LET p1 == {i \in 1..Len(content) : MatchChapterHeading(content[i]) # None}
        p2 == {i \in 1..Len(content) : MatchNumberedHeading(content[i]) # None}
        filename == Stem(file_path)
        p3 == MatchChapterFilename(filename)
    IN  IF p1 # {}
        THEN LET m == MatchChapterHeading(content[Min(p1)])[1]
             IN  Some(ChapterInfo(ParseNat(m.num), Strip(m.title),
                                  "Chapter " \o m.num \o ": " \o Strip(m.title)))
        ELSE IF p2 # {}
        THEN LET m == MatchNumberedHeading(content[Min(p2)])[1]
             IN  Some(ChapterInfo(ParseNat(m.num), Strip(m.title),
                                  "Chapter " \o m.num \o ": " \o Strip(m.title)))
        ELSE IF p3 # None
        THEN LET chapter_num == ParseNat(p3[1])
             IN  Some(ChapterInfo(chapter_num,
                        StripDashes(Remove(filename, "chapter-" \o IntToStr(chapter_num))),
                        "Chapter " \o IntToStr(chapter_num)))
        ELSE None

\* re.match(r"^##\s+(.+)$", line): "##", whitespace, at least one more
\* character
IsSectionHeading(line) ==
    Slice(line, 1, 2) = "##" /\ CharAt(line, 3) \in Whitespace /\ Len(line) >= 4

\* one section of extract_sections
Section(section_title, current_content) ==
    [section_title |-> section_title,
     section_content |-> Strip(JoinLines(current_content))]

RECURSIVE SectionsFrom(_, _, _, _)
\* the loop of extract_sections from line i on; current_section is None or
\* <<title>>, and a section is saved only when its title is non-empty
SectionsFrom(lines, i, current_section, current_content) ==
    LET saved == IF current_section # None /\ current_section[1] # ""
                 THEN <<Section(current_section[1], current_content)>> ELSE <<>>
    IN  IF i > Len(lines) THEN saved
        ELSE IF IsSectionHeading(lines[i])
             THEN saved \o SectionsFrom(lines, i + 1,
                                Some(Strip(Slice(lines[i], 4, Len(lines[i])))), <<>>)
             ELSE SectionsFrom(lines, i + 1, current_section,
                               Append(current_content, lines[i]))

\* services/content_extractor.py extract_sections
extract_sections(content) == SectionsFrom(content, 1, None, <<>>)

\* services/content_extractor.py process_file, for a file that can be read
process_file(file) ==
    LET fb == extract_frontmatter(file.lines)
    IN  [file_path |-> file.file_path,
         frontmatter |-> fb.frontmatter,
         chapter_info |-> extract_chapter_info(fb.body, file.file_path),
         sections |-> extract_sections(fb.body),
         raw_content |-> JoinLines(fb.body)]

(***************************************************************************)
(* ChunkingService.  split_markdown_text is the recursive character        *)
(* splitter of the text-splitting library with chunk_size, chunk_overlap,  *)
(* len as the length function, separators kept at the start of the piece   *)
(* that follows them, and every chunk stripped.  The section texts of the  *)
(* inputs hold no heading, code fence or horizontal rule, so of the        *)
(* Markdown separators only the plain ones can match.                      *)
(***************************************************************************)

\* settings.chunk_size
chunk_size == 800

\* settings.chunk_overlap
chunk_overlap == 100

\* the separators that can occur in the inputs, in the splitter's order
separators == <<"\n\n", "\n", " ", "">>

RECURSIVE Concat(_)
\* "".join(pieces)
Concat(pieces) ==
    IF pieces = <<>> THEN "" ELSE Head(pieces) \o Concat(Tail(pieces))

\* _join_docs: the joined and stripped text, dropped when it is empty
JoinDocs(current_doc) ==
    LET text == Strip(Concat(current_doc))
    IN  IF text = "" THEN <<>> ELSE <<text>>

RECURSIVE SplitFrom(_, _, _, _)
\* re.split with the separator kept: the pieces of text from index start on,
\* the next separator being looked for from index from on; empty pieces are
\* dropped
SplitFrom(text, separator, start, from) ==
    LET later == {i \in from..(Len(text) - Len(separator) + 1) :
                     SubSeq(text, i, i + Len(separator) - 1) = separator}
        Piece(a, b) == IF a > b THEN <<>> ELSE <<SubSeq(text, a, b)>>
    IN  IF later = {} THEN Piece(start, Len(text))
        ELSE Piece(start, Min(later) - 1)
                \o SplitFrom(text, separator, Min(later), Min(later) + Len(separator))

RECURSIVE TrimDoc(_, _, _)
\* the while loop of _merge_splits: pieces are popped from the front until
\* the overlap is at most chunk_overlap and the next piece fits
TrimDoc(current_doc, total, len) ==
    IF total > chunk_overlap \/ (total + len > chunk_size /\ total > 0)
    THEN TrimDoc(Tail(current_doc), total - Len(Head(current_doc)), len)
    ELSE [doc |-> current_doc, total |-> total]

RECURSIVE MergeLoop(_, _, _)
\* the for loop of _merge_splits (the separator between kept pieces is "")
MergeLoop(splits, current_doc, total) ==
    IF splits = <<>> THEN JoinDocs(current_doc)
    ELSE LET d == Head(splits)
         IN  IF total + Len(d) > chunk_size /\ current_doc # <<>>
             THEN LET t == TrimDoc(current_doc, total, Len(d))
                  IN  JoinDocs(current_doc)
                         \o MergeLoop(Tail(splits), Append(t.doc, d), t.total + Len(d))
             ELSE MergeLoop(Tail(splits), Append(current_doc, d), total + Len(d))

\* _merge_splits
merge_splits(splits) == IF splits = <<>> THEN <<>> ELSE MergeLoop(splits, <<>>, 0)

RECURSIVE CharWindows(_, _)
\* _merge_splits over the single characters of text: windows of chunk_size
\* characters, each starting chunk_size - chunk_overlap after the one before
CharWindows(text, start) ==
    IF start + chunk_size - 1 >= Len(text)
    THEN JoinDocs(<<Slice(text, start, Len(text))>>)
    ELSE JoinDocs(<<Slice(text, start, start + chunk_size - 1)>>)
            \o CharWindows(text, start + chunk_size - chunk_overlap)

RECURSIVE split_text(_, _)
RECURSIVE SplitLoop(_, _, _)

\* the loop of _split_text over the pieces: short pieces are collected and
\* merged, a piece of chunk_size or more is split by the later separators
SplitLoop(splits, good_splits, new_separators) ==
    IF splits = <<>> THEN merge_splits(good_splits)
    ELSE IF Len(Head(splits)) < chunk_size
         THEN SplitLoop(Tail(splits), Append(good_splits, Head(splits)), new_separators)
         ELSE merge_splits(good_splits)
                 \o (IF new_separators = <<>> THEN <<Head(splits)>>
                     ELSE split_text(Head(splits), new_separators))
                 \o SplitLoop(Tail(splits), <<>>, new_separators)

\* RecursiveCharacterTextSplitter._split_text: split by the first separator
\* that occurs in the text
split_text(text, seps) ==
    LET k == Min({i \in 1..Len(seps) : seps[i] = "" \/ Contains(text, seps[i])})
    IN  IF seps[k] = "" THEN CharWindows(text, 1)
        ELSE SplitLoop(SplitFrom(text, seps[k], 1, 1), <<>>,
                       SubSeq(seps, k + 1, Len(seps)))

\* utils/chunking.py split_markdown_text
split_markdown_text(text) == split_text(text, separators)

\* services/chunking_service.py chunk_section
chunk_section(section_content, chapter_info, section_title, section_num, source_file) ==
    LET text_chunks == split_markdown_text(section_content)
    IN  [idx \in 1..Len(text_chunks) |->
            [text |-> text_chunks[idx],
             chapter |-> chapter_info.chapter_full,
             section |-> section_title,
             page |-> idx,
             passage_id |-> generate_passage_id(chapter_info.chapter_num, section_num, idx),
             source_file |-> source_file]]

RECURSIVE ChunkSections(_, _, _, _)
\* the loop of chunk_file over the sections, numbered from section_num on
ChunkSections(sections, section_num, chapter_info, source_file) ==
    IF sections = <<>> THEN <<>>
    ELSE chunk_section(Head(sections).section_content, chapter_info,
                       Head(sections).section_title, section_num, source_file)
            \o ChunkSections(Tail(sections), section_num + 1, chapter_info, source_file)

\* services/chunking_service.py chunk_file: defaults for a file without
\* chapter information, the whole content as one section for a file without
\* sections
chunk_file(processed_file) ==
    LET chapter_info == IF processed_file.chapter_info = None
                        THEN ChapterInfo(0, "Unknown", "Unknown Chapter")
                        ELSE processed_file.chapter_info[1]
        sections == IF processed_file.sections = <<>>
                    THEN <<[section_title |-> chapter_info.chapter_title,
                            section_content |-> processed_file.raw_content]>>
                    ELSE processed_file.sections
    IN  ChunkSections(sections, 1, chapter_info, processed_file.file_path)

\* services/chunking_service.py validate_chunk (no caller in the services)
validate_chunk(chunk_dict) ==
    /\ \A field \in {"text", "chapter", "section", "passage_id", "source_file"} :
          field \in DOMAIN chunk_dict /\ chunk_dict[field] # ""
    /\ Len(chunk_dict.text) >= 100
    /\ Len(chunk_dict.text) <= 2000

\* utils/qdrant_client.py VECTOR_SIZE: the dimension of the vectors the
\* embedding model returns
VECTOR_SIZE == 1536

\* the length models/chunk.py requires of Chunk.embedding
EmbeddingDim == 1536

\* models/chunk.py Chunk: the field constraints pydantic enforces when
\* generate_embeddings_for_chunks constructs a Chunk
ChunkValid(chunk_dict, embedding) ==
    /\ Len(chunk_dict.text) >= 100
    /\ Len(chunk_dict.text) <= 2000
    /\ embedding.dim = EmbeddingDim
    /\ Len(chunk_dict.chapter) >= 1
    /\ Len(chunk_dict.section) >= 1
    /\ chunk_dict.page >= 1
    /\ LET j1 == DigitRunEnd(chunk_dict.passage_id, 3)
           j2 == DigitRunEnd(chunk_dict.passage_id, j1 + 4)
           j3 == DigitRunEnd(chunk_dict.passage_id, j2 + 2)
       IN  /\ Slice(chunk_dict.passage_id, 1, 2) = "ch"
           /\ j1 > 3
           /\ Slice(chunk_dict.passage_id, j1, j1 + 3) = "-sec"
           /\ j2 > j1 + 4
           /\ Slice(chunk_dict.passage_id, j2, j2 + 1) = "-p"
           /\ j3 > j2 + 2
           /\ j3 = Len(chunk_dict.passage_id) + 1
    /\ Len(chunk_dict.source_file) >= 1

\* the Chunk model built from a chunk dict, its embedding and a fresh id
Chunk(id, chunk_dict, embedding) ==
    [id |-> id, text |-> chunk_dict.text, embedding |-> embedding,
     chapter |-> chunk_dict.chapter, section |-> chunk_dict.section,
     page |-> Some(chunk_dict.page), passage_id |-> chunk_dict.passage_id,
     source_file |-> chunk_dict.source_file]

\* models/chunk.py to_qdrant_payload (created_at is not modelled)
to_qdrant_payload(chunk) ==
    [text |-> chunk.text, chapter |-> chunk.chapter, section |-> chunk.section,
     page |-> chunk.page, passage_id |-> chunk.passage_id,
     source_file |-> chunk.source_file]

\* the PointStruct index_chunks builds from a Chunk
PointStruct(chunk) ==
    [id |-> chunk.id, vector |-> chunk.embedding, payload |-> to_qdrant_payload(chunk)]

(***************************************************************************)
(* IndexingService: the state-free parts of the four stages.               *)
(***************************************************************************)

\* the stats dict index_all_content starts from
InitialStats ==
    [files_processed |-> 0, chunks_created |-> 0, chunks_embedded |-> 0,
     chunks_indexed |-> 0, errors |-> <<>>]

\* chunk_dicts[i : i + batch_size] for the 0-based offset i
Batch(items, i, size) ==
    SubSeq(items, i + 1, IF i + size > Len(items) THEN Len(items) ELSE i + size)

\* one pass of the batch loop of generate_embeddings_for_chunks: the
\* provider raises, or returns one vector per text and the Chunks are built
\* and appended one by one until one is rejected; ids counts the uuid4 calls
embed_batch(batch, provider, first_id) ==
    LET bad == {i \in 1..Len(batch) : ~ChunkValid(batch[i], [dim |-> VECTOR_SIZE])}
        kept == IF bad = {} THEN Len(batch) ELSE Min(bad) - 1
    IN  IF provider = "error" THEN [chunks |-> <<>>, failed |-> TRUE, ids |-> 0]
        ELSE [chunks |-> [i \in 1..kept |->
                            Chunk(first_id + i - 1, batch[i], [dim |-> VECTOR_SIZE])],
              failed |-> bad # {},
              ids |-> IF bad = {} THEN Len(batch) ELSE Min(bad)]

(***************************************************************************)
(* Inputs: requests, index contents and provider behaviours.               *)
(***************************************************************************)

\* a passage text of 115 characters
Text115 == "Retrieval augmented generation grounds every answer in passages of the book. " \o Rep("x", 38)

\* a passage text of 260 characters with word boundaries
Text260 == Rep("chunk size matters. ", 13)

PayloadA ==
    [passage_id |-> "ch1-sec1-p1", chapter |-> "Chapter 1: Intro", section |-> "Basics",
     page |-> Some(1), text |-> Text115]

PayloadB ==
    [passage_id |-> "ch1-sec2-p1", chapter |-> "Chapter 1: Intro", section |-> "Chunking",
     page |-> Some(1), text |-> Text260]

PayloadC ==
    [passage_id |-> "ch2-sec1-p2", chapter |-> "Chapter 2: Retrieval", section |-> "Search",
     page |-> Some(2), text |-> Text115]

\* a payload without a passage identifier: no Source can be built from it
PayloadNoId ==
    [chapter |-> "Chapter 2: Retrieval", section |-> "Search", page |-> Some(1),
     text |-> Text115]

\* a payload with empty text: no Source can be built from it
PayloadNoText ==
    [passage_id |-> "ch3-sec1-p1", chapter |-> "Chapter 3: Answers", section |-> "Policy",
     page |-> Some(1), text |-> ""]

Hit(id, score, payload) == [id |-> id, score |-> score, payload |-> payload]

\* What the index returns for one search: at most top_k_retrieval hits in
\* non-increasing score order, every score at or above the threshold
SearchResults ==
    { <<>>,
      <<Hit("a", 910, PayloadA)>>,
      <<Hit("b", 880, PayloadB), Hit("a", 800, PayloadA)>>,
      <<Hit("c", 900, PayloadC), Hit("a", 850, PayloadA), Hit("b", 840, PayloadB)>>,
      <<Hit("n", 750, PayloadNoId)>>,
      <<Hit("t", 790, PayloadNoText), Hit("n", 720, PayloadNoId)>>,
      <<Hit("a", 950, PayloadA), Hit("n", 700, PayloadNoId)>> }

\* What the index client does with one search: it raises, or returns hits
SearchOutcomes ==
    {[kind |-> "raise"]} \cup {[kind |-> "hits", hits |-> h] : h \in SearchResults}

\* utils/qdrant_client.py QdrantClientWrapper.search: the hits, or [] when
\* the client raises
search(outcome) == IF outcome.kind = "hits" THEN outcome.hits ELSE <<>>

Queries == {"What is RAG?", " chunk \n size? ", "  "}

Contexts ==
    { None, Some(""), Some(" "), Some("RAG means retrieval augmented generation."),
      Some(Rep("y", 200)), Some(Rep("y", 201)) }

\* the requests that reach the handler
Requests ==
    [query : Queries, mode : {BOOK_WIDE, SELECTED_TEXT}, context : Contexts]

FinishReasons == {"stop", "length"}

GeneratedTexts ==
    { "",
      "   ",
      "Yes.",
      "RAG grounds answers in retrieved passages of the book [ch1-sec1-p1].",
      "The text says that RAG means retrieval augmented generation [selected-text].",
      Rep("A long answer. ", 40),
      " i CANNOT answer this QUESTION based on the provided book content. ",
      "The Selected Text Does Not Contain information about that.",
      "There is INSUFFICIENT INFORMATION [ch1-sec1-p1]." }

ProviderErrors ==
    { "Request timed out.",
      "No relevant content found in book",
      "Insufficient context to answer question" }

GenerationOutcomes ==
    {[kind |-> "raise", error |-> e] : e \in ProviderErrors}
    \cup {[kind |-> "nochoices"]}
    \cup {[kind |-> "nocontent", finish_reason |-> f] : f \in FinishReasons}
    \cup {[kind |-> "text", content |-> t, finish_reason |-> f] :
            t \in GeneratedTexts, f \in FinishReasons}

(***************************************************************************)
(* Inputs of the indexing pipeline: content directories and batch sizes.   *)
(***************************************************************************)

\* a paragraph of 600 characters
Para600 == Rep("chunk size matters. ", 30)

\* a paragraph of 594 characters
Para594 == Rep("overlap keeps context ", 27)

\* a section text of 150 characters
Text150 == Rep("more on chapter one. ", 7) \o "End"

\* a text of 134 characters
Text134 == Rep("loose notes without any heading. ", 4) \o "!!"

\* a chapter with front matter, a preface and two sections, the first of
\* which is longer than chunk_size
FileIntro ==
    [file_path |-> "content/chapter-1-intro.md",
     lines |-> <<"---", "title: Intro", "---", "", "# Chapter 1: Intro", "",
                 "Opening words.", "", "## Basics", Para600, "", Para594, "",
                 "## Chunking", Text115>>]

\* a second file of the same chapter
FileMore ==
    [file_path |-> "content/chapter-1-more.md",
     lines |-> <<"# Chapter 1 - More", "", "## Extra", Text150, "">>]

\* a chapter whose second section is shorter than a Chunk may be
FileRetrieval ==
    [file_path |-> "content/chapter-2-retrieval.md",
     lines |-> <<"# 2. Retrieval", "", "## Ranking", Text115, "", "## Search",
                 "Too short to stand alone.", "">>]

\* a file without chapter heading, chapter file name or sections
FileNotes ==
    [file_path |-> "content/notes.md", lines |-> <<Text134, "">>]

\* the Markdown files that can be in the content directory, in the order
\* sorted(glob("**/*.md")) lists them
FilePool == <<FileIntro, FileMore, FileRetrieval, FileNotes>>

MaxFiles == 3

\* the files with the given indices of the pool, in listing order
Listing(S) ==
    [i \in 1..Cardinality(S) |->
        FilePool[CHOOSE x \in S : Cardinality({y \in S : y < x}) = i - 1]]

\* the content directories: missing, or holding up to MaxFiles files
ContentDirs ==
    {[exists |-> FALSE, files |-> <<>>]}
    \cup {[exists |-> TRUE, files |-> Listing(S)] :
            S \in {T \in SUBSET (1..Len(FilePool)) : Cardinality(T) <= MaxFiles}}

\* batch sizes of the admin request (1 to 500, default 100)
BatchSizes == {1, 2, 100}

\* the runs and deletions that are followed by a further operation
MaxOps == 2

\* the largest listing for which a further run is explored
MaxReindexFiles == 2

\* the most failed calls of a run after which a further operation is explored
MaxEarlierFailures == 0

(***************************************************************************)
(* State.                                                                  *)
(***************************************************************************)

VARIABLES
    pc,           \* position of the request in the handler
    request,      \* the ChatRequest being served
    query,        \* the sanitized query
    retrieved,    \* result of retrieve_chunks
    chunks,       \* chunks returned by retrieve_and_rerank
    sources,      \* the handler's sources list
    context,      \* the handler's context string
    prompt,       \* None or <<the prompt given to the generation provider>>
    generation,   \* None or <<the provider's outcome>>
    response,     \* None or <<the ChatResponse returned>>
    embedCalls,   \* embedding-provider calls made for this request
    searchCalls,  \* vector-index searches made for this request
    genCalls,     \* generation-provider calls made for this request
    lastSelected, \* None or <<[query, context, prompt]>> of the previous
                  \* selected-text request that reached generation
    fault,        \* which retrieval call failed: "none", "embedding", "search"
    rrIn,         \* argument of a rerank_by_section_proximity call
    rrOut,        \* its result
    sortIn,       \* argument of a sort_by_document_order call
    sortOut,      \* its result
    pidArgs,      \* None or <<the triple given to generate_passage_id>>
    pidStr,       \* None or <<the string given to extract_passage_id_components>>
    pidOut,       \* the parser's result for pidStr
    tsIn,         \* None or <<[text, max_length] given to truncate_snippet>>
    tsOut,        \* its result
    confIn,       \* None or <<the provider outcome given to generate_answer>>
    confOut,      \* None or <<its result>>
    ipc,          \* position of index_all_content
    content_dir,  \* the content directory of the run
    batch_size,   \* the batch size of the run
    md_files,     \* the files list_markdown_files returned
    fileIdx,      \* index of the next file in the loop of stage 1 or 2
    processed_files,         \* output of stage 1
    chunk_dicts,             \* output of stage 2
    batchStart,              \* offset i of the next batch in stage 3 or 4
    chunks_with_embeddings,  \* output of stage 3
    indexed_count,           \* indexed_count of index_chunks
    stats,        \* the stats dict of the run
    collection,   \* the points the run added to the vector index
    nextId,       \* the next fresh chunk id
    skipped,      \* paths of the files whose extraction or chunking failed
    embedLog,     \* the embedding batches attempted, in order
    upsertLog,    \* the upsert batches attempted, in order
    escaped,      \* an exception left index_all_content
    trace,        \* the stage of each call the run has made, in order
    runLog,       \* the earlier runs and collection deletions, in order
    handlers,     \* the requests being served side by side: the locals of each
    qdrant_client \* the module-level client of utils/qdrant_client.py

vars == <<pc, request, query, retrieved, chunks, sources, context, prompt,
          generation, response, embedCalls, searchCalls, genCalls, lastSelected,
          fault, rrIn, rrOut, sortIn, sortOut, pidArgs, pidStr, pidOut, tsIn, tsOut,
          confIn, confOut, ipc, content_dir, batch_size, md_files, fileIdx, processed_files,
          chunk_dicts, batchStart, chunks_with_embeddings, indexed_count, stats,
          collection, nextId, skipped, embedLog, upsertLog, escaped, trace, runLog,
          handlers, qdrant_client>>

handlerVars == <<pc, request, query, retrieved, chunks, sources, context, prompt,
                 generation, response, embedCalls, searchCalls, genCalls, lastSelected,
                 fault>>

chatVars == <<handlerVars, handlers, qdrant_client>>

\* the variables of the calls of single functions
pureVars == <<rrIn, rrOut, sortIn, sortOut, pidArgs, pidStr, pidOut, tsIn, tsOut,
              confIn, confOut>>

\* the variables of the indexing pipeline
indexVars == <<ipc, content_dir, batch_size, md_files, fileIdx, processed_files,
               chunk_dicts, batchStart, chunks_with_embeddings, indexed_count, stats,
               collection, nextId, skipped, embedLog, upsertLog, escaped, trace,
               runLog>>

NoRequest == [query |-> "", mode |-> BOOK_WIDE, context |-> None]

Terminal == {"Answered", "Refused"}

\* the requests served side by side
Handlers == {1, 2}

\* the positions of a handler between its first line and its return
UnderWay == {"Validated", "Ready", "Searching", "Generating"}

\* the locals of a handler that has not received its request; alongside
\* records that the other handler was under way when the request came
IdleHandler ==
    [pc |-> "Idle", request |-> NoRequest, query |-> "", client |-> None,
     embedded |-> None, searched |-> None, generated |-> None,
     sources |-> <<>>, context |-> "", response |-> None, alongside |-> FALSE]

\* everything but the contents of the vector index, which lives in the
\* external store and outlasts the server process
InitServer ==
    /\ pc = "Idle"
    /\ request = NoRequest
    /\ query = ""
    /\ retrieved = <<>>
    /\ chunks = <<>>
    /\ sources = <<>>
    /\ context = ""
    /\ prompt = None
    /\ generation = None
    /\ response = None
    /\ embedCalls = 0
    /\ searchCalls = 0
    /\ genCalls = 0
    /\ lastSelected = None
    /\ fault = "none"
    /\ rrIn = <<>>
    /\ rrOut = <<>>
    /\ sortIn = <<>>
    /\ sortOut = <<>>
    /\ pidArgs = None
    /\ pidStr = None
    /\ pidOut = None
    /\ tsIn = None
    /\ tsOut = ""
    /\ confIn = None
    /\ confOut = None
    /\ ipc = "Idle"
    /\ content_dir = [exists |-> FALSE, files |-> <<>>]
    /\ batch_size = 100
    /\ md_files = <<>>
    /\ fileIdx = 1
    /\ processed_files = <<>>
    /\ chunk_dicts = <<>>
    /\ batchStart = 0
    /\ chunks_with_embeddings = <<>>
    /\ indexed_count = 0
    /\ stats = InitialStats
    /\ nextId = 1
    /\ skipped = {}
    /\ embedLog = <<>>
    /\ upsertLog = <<>>
    /\ escaped = FALSE
    /\ trace = <<>>
    /\ runLog = <<>>
    /\ handlers = [h \in Handlers |-> IdleHandler]
    /\ qdrant_client = None

\* the server and a new, empty collection
Init ==
    /\ InitServer
    /\ collection = <<>>

\* chat.py lines 126-151: sanitize and validate; an invalid request is
\* answered with HTTP 422, a valid one goes on to the services
Submit ==
    /\ pc = "Idle"
    /\ \E r \in Requests :
        /\ request' = r
        /\ query' = sanitize_text(r.query)
        /\ pc' = IF validate_query_text(sanitize_text(r.query))
                    /\ validate_context_text(r.context, r.mode)
                 THEN "Validated" ELSE "Rejected"
    /\ retrieved' = <<>>
    /\ chunks' = <<>>
    /\ sources' = <<>>
    /\ context' = ""
    /\ prompt' = None
    /\ generation' = None
    /\ response' = None
    /\ embedCalls' = 0
    /\ searchCalls' = 0
    /\ genCalls' = 0
    /\ fault' = "none"
    /\ UNCHANGED <<lastSelected, pureVars, indexVars,
                   handlers, qdrant_client>>

\* variant: the embedding error is not caught in retrieve_chunks and
\* reaches the handler's "except Exception"
EmbedUncaught ==
    /\ pc = "Validated"
    /\ request.mode = BOOK_WIDE
    /\ embedCalls' = embedCalls + 1
    /\ \E ok \in BOOLEAN :
        IF ok
        THEN /\ pc' = "Searching"
             /\ UNCHANGED <<response, fault>>
        ELSE /\ pc' = "Refused"
             /\ fault' = "embedding"
             /\ response' = Some(InternalErrorResponse(request.mode, "Connection error."))
    /\ UNCHANGED <<request, query, retrieved, chunks, sources, context, prompt,
                   generation, searchCalls, genCalls, lastSelected, pureVars, indexVars,
                   handlers, qdrant_client>>

\* retrieve_chunks, first half: generate_embedding(query).  When it raises,
\* retrieve_chunks returns [], retrieve_and_rerank returns ([], []) and the
\* handler returns the no-chunks refusal.
Embed ==
    /\ pc = "Validated"
    /\ request.mode = BOOK_WIDE
    /\ embedCalls' = embedCalls + 1
    /\ \E ok \in BOOLEAN :
        IF ok
        THEN /\ pc' = "Searching"
             /\ UNCHANGED <<response, fault>>
        ELSE /\ pc' = "Refused"
             /\ fault' = "embedding"
             /\ response' = Some(NoChunksResponse(request.mode))
    /\ UNCHANGED <<request, query, retrieved, chunks, sources, context, prompt,
                   generation, searchCalls, genCalls, lastSelected, pureVars, indexVars,
                   handlers, qdrant_client>>

\* variant: the search stores the query as a point of the collection
SearchStoresQuery ==
    /\ pc = "Searching"
    /\ searchCalls' = searchCalls + 1
    /\ \E outcome \in SearchOutcomes :
        /\ retrieved' = search(outcome)
        /\ fault' = IF outcome.kind = "raise" THEN "search" ELSE "none"
        /\ IF search(outcome) = <<>>
           THEN /\ pc' = "Refused"
                /\ response' = Some(NoChunksResponse(request.mode))
                /\ UNCHANGED <<chunks, sources, context>>
           ELSE LET sorted_chunks ==
                        sort_by_document_order(rerank_by_section_proximity(search(outcome)))
                IN  /\ chunks' = sorted_chunks
                    /\ sources' = chunks_to_sources(sorted_chunks)
                    /\ context' = get_context_text(sorted_chunks)
                    /\ pc' = "Generating"
                    /\ UNCHANGED response
    /\ collection' = Append(collection, [id |-> 0, vector |-> [dim |-> VECTOR_SIZE],
                                         payload |-> [text |-> query]])
    /\ UNCHANGED <<request, query, prompt, generation, embedCalls, genCalls, lastSelected,
                   pureVars, handlers, qdrant_client>>
    /\ UNCHANGED <<ipc, content_dir, batch_size, md_files, fileIdx, processed_files,
                   chunk_dicts, batchStart, chunks_with_embeddings, indexed_count,
                   stats, nextId, skipped, embedLog, upsertLog, escaped, trace, runLog>>

\* retrieve_chunks, second half, and the rest of retrieve_and_rerank and of
\* the book-wide branch: search (a failed search yields []), rerank, sort,
\* build the sources and the context
Search ==
    /\ pc = "Searching"
    /\ searchCalls' = searchCalls + 1
    /\ \E outcome \in SearchOutcomes :
        /\ retrieved' = search(outcome)
        /\ fault' = IF outcome.kind = "raise" THEN "search" ELSE "none"
        /\ IF search(outcome) = <<>>
           THEN /\ pc' = "Refused"
                /\ response' = Some(NoChunksResponse(request.mode))
                /\ UNCHANGED <<chunks, sources, context>>
           ELSE LET sorted_chunks ==
                        sort_by_document_order(rerank_by_section_proximity(search(outcome)))
                IN  /\ chunks' = sorted_chunks
                    /\ sources' = chunks_to_sources(sorted_chunks)
                    /\ context' = get_context_text(sorted_chunks)
                    /\ pc' = "Generating"
                    /\ UNCHANGED response
    /\ UNCHANGED <<request, query, prompt, generation, embedCalls, genCalls, lastSelected,
                   pureVars, indexVars,
                   handlers, qdrant_client>>

\* the selected-text branch (lines 177-189): the context is the user's text
\* and the one Source is built from it; a Source that fails validation
\* raises, which the handler's "except Exception" turns into a response
SelectText ==
    /\ pc = "Validated"
    /\ request.mode = SELECTED_TEXT
    /\ LET text == request.context[1]
           snippet == SelectedSnippet(text)
       IN  IF SourceValid("selected-text", "User-Selected Text", "User Selection", None, snippet)
           THEN /\ context' = text
                /\ sources' = <<Source("selected-text", "User-Selected Text",
                                       "User Selection", None, snippet)>>
                /\ pc' = "Generating"
                /\ UNCHANGED response
           ELSE /\ pc' = "Refused"
                /\ response' = Some(InternalErrorResponse(request.mode,
                                        "1 validation error for Source"))
                /\ UNCHANGED <<context, sources>>
    /\ UNCHANGED <<request, query, retrieved, chunks, prompt, generation,
                   embedCalls, searchCalls, genCalls, lastSelected, fault, pureVars, indexVars,
                   handlers, qdrant_client>>

\* variant: a failed provider call is retried once
GenerateWithRetry ==
    /\ pc = "Generating"
    /\ genCalls' = genCalls + 1
    /\ \E outcome \in GenerationOutcomes :
        LET user_context == IF request.mode = SELECTED_TEXT THEN request.context ELSE None
            r == generate_answer(query, context, request.mode, user_context, outcome)
            retry == outcome.kind = "raise" /\ genCalls = 0
        IN  /\ prompt' = Some(build_prompt(query, context, request.mode, user_context))
            /\ generation' = Some(outcome)
            /\ response' = IF retry THEN response ELSE Some(ChatResponse(
                    IF r.refused THEN REFUSAL_MESSAGE ELSE r.answer,
                    IF r.refused THEN <<>> ELSE sources,
                    r.refused, r.refusal_reason, r.confidence, request.mode))
            /\ sources' = IF r.refused /\ ~retry THEN <<>> ELSE sources
            /\ pc' = IF retry THEN "Generating"
                     ELSE IF r.refused THEN "Refused" ELSE "Answered"
    /\ UNCHANGED <<request, query, retrieved, chunks, context, embedCalls,
                   searchCalls, lastSelected, fault, pureVars, indexVars,
                   handlers, qdrant_client>>

\* lines 191-222: generate_answer with its one provider call, the override
\* of a refused answer, and the response
Generate ==
    /\ pc = "Generating"
    /\ genCalls' = genCalls + 1
    /\ \E outcome \in GenerationOutcomes :
        LET user_context == IF request.mode = SELECTED_TEXT THEN request.context ELSE None
            r == generate_answer(query, context, request.mode, user_context, outcome)
        IN  /\ prompt' = Some(build_prompt(query, context, request.mode, user_context))
            /\ generation' = Some(outcome)
            /\ response' = Some(ChatResponse(
                    IF r.refused THEN REFUSAL_MESSAGE ELSE r.answer,
                    IF r.refused THEN <<>> ELSE sources,
                    r.refused, r.refusal_reason, r.confidence, request.mode))
            /\ sources' = IF r.refused THEN <<>> ELSE sources
            /\ pc' = IF r.refused THEN "Refused" ELSE "Answered"
    /\ UNCHANGED <<request, query, retrieved, chunks, context, embedCalls,
                   searchCalls, lastSelected, fault, pureVars, indexVars,
                   handlers, qdrant_client>>

\* the handler has returned; the server waits for the next request
Return ==
    /\ pc \in Terminal \cup {"Rejected"}
    /\ pc' = "Idle"
    /\ lastSelected' =
          IF request.mode = SELECTED_TEXT /\ prompt # None
          THEN Some([query |-> request.query, context |-> request.context,
                     prompt |-> prompt[1]])
          ELSE lastSelected
    /\ UNCHANGED <<request, query, retrieved, chunks, sources, context, prompt,
                   generation, response, embedCalls, searchCalls, genCalls, fault,
                   pureVars, indexVars,
                   handlers, qdrant_client>>

Next ==
    \/ Submit
    \/ Embed
    \/ Search
    \/ SelectText
    \/ Generate
    \/ Return

Spec == Init /\ [][Next]_vars

\* Every step of the handler that is enabled is eventually taken: the
\* handler runs to completion and each provider call returns or raises.
FairSpec ==
    /\ Spec
    /\ WF_vars(Embed)
    /\ WF_vars(Search)
    /\ WF_vars(SelectText)
    /\ WF_vars(Generate)

(***************************************************************************)
(* rerank_by_section_proximity on its own: every retrieval result of up to *)
(* MaxHits hits over three chapters (one of them the payload without a     *)
(* chapter key) and three scores.                                          *)
(***************************************************************************)

MaxHits == 6

RerankScores == {700, 770, 900}

\* "" stands for a payload without a chapter key
RerankChapters == {"Chapter 1: Intro", "Chapter 2: Retrieval", ""}

RerankPayload(chapter, i) ==
    IF chapter = ""
    THEN [passage_id |-> "ch1-sec1-p1", section |-> "Basics", page |-> Some(i),
          text |-> Text115]
    ELSE [passage_id |-> "ch1-sec1-p1", chapter |-> chapter, section |-> "Basics",
          page |-> Some(i), text |-> Text115]

\* score sequences in the order the index returns them: non-increasing
ScoreSeqs(n) ==
    {s \in [1..n -> RerankScores] : \A i \in 1..(n - 1) : s[i] >= s[i + 1]}

RerankCall ==
    /\ rrIn = <<>>
    /\ \E n \in 1..MaxHits :
        \E s \in ScoreSeqs(n), c \in [1..n -> RerankChapters] :
            LET hits == [i \in 1..n |-> Hit(i, s[i], RerankPayload(c[i], i))]
            IN  /\ rrIn' = hits
                /\ rrOut' = rerank_by_section_proximity(hits)
    /\ UNCHANGED <<chatVars, sortIn, sortOut, pidArgs, pidStr, pidOut, tsIn, tsOut,
                   confIn, confOut, indexVars>>

RerankSpec == Init /\ [][RerankCall]_vars

(***************************************************************************)
(* sort_by_document_order on its own: every list of up to MaxSort chunks   *)
(* whose passage identifiers are well formed (among them a chapter beyond  *)
(* 999 and one that orders differently as text), malformed, or absent.     *)
(***************************************************************************)

MaxSort == 3

\* "" stands for a payload without a passage_id key
SortIds == {"ch1-sec1-p1", "ch1-sec2-p1", "ch2-sec1-p3", "ch10-sec1-p1",
            "ch1000-sec1-p1", "unknown", ""}

SortScores == {700, 900}

SortPayload(passage_id) ==
    IF passage_id = ""
    THEN [chapter |-> "Chapter 1: Intro", section |-> "Basics", page |-> Some(1),
          text |-> Text115]
    ELSE [passage_id |-> passage_id, chapter |-> "Chapter 1: Intro",
          section |-> "Basics", page |-> Some(1), text |-> Text115]

SortCall ==
    /\ sortIn = <<>>
    /\ \E n \in 1..MaxSort :
        \E ids \in [1..n -> SortIds], s \in [1..n -> SortScores] :
            LET cs == [i \in 1..n |-> Hit(i, s[i], SortPayload(ids[i]))]
            IN  /\ sortIn' = cs
                /\ sortOut' = sort_by_document_order(cs)
    /\ UNCHANGED <<chatVars, rrIn, rrOut, pidArgs, pidStr, pidOut, tsIn, tsOut,
                   confIn, confOut, indexVars>>

SortSpec == Init /\ [][SortCall]_vars

(***************************************************************************)
(* Passage identifiers on their own: generate_passage_id followed by       *)
(* extract_passage_id_components for every triple of numbers up to         *)
(* MaxComponent, and the parser alone on strings that no triple renders to.*)
(***************************************************************************)

MaxComponent == 12

\* strings offered to the parser directly
ForeignIds ==
    {"", "unknown", "ch1", "ch1-sec1", "ch1-sec1-p", "ch-sec1-p1", "ch1-sec-p1",
     "chA-sec1-p1", "ch1-sec1-p1x", "xch1-sec1-p1", "Ch1-Sec1-P1", "ch1_sec1_p1",
     "ch1-sec1-p1 ", " ch1-sec1-p1", "ch1-sec1-p1\n", "ch1-sec1-p1\n\n",
     "ch1-sec1-p-1", "ch1.5-sec1-p1", "chapter-1", "ch12-sec3-p45"}

\* chunk_section's call followed by the parse of its result
RenderAndParse ==
    /\ pidStr = None
    /\ \E c \in 1..MaxComponent, sec \in 1..MaxComponent, pg \in 1..MaxComponent :
        LET passage_id == generate_passage_id(c, sec, pg)
        IN  /\ pidArgs' = Some(<<c, sec, pg>>)
            /\ pidStr' = Some(passage_id)
            /\ pidOut' = extract_passage_id_components(passage_id)
    /\ UNCHANGED <<chatVars, rrIn, rrOut, sortIn, sortOut, tsIn, tsOut, confIn, confOut,
                   indexVars>>

\* the parse of a passage_id read from a payload
ParseForeign ==
    /\ pidStr = None
    /\ \E passage_id \in ForeignIds :
        /\ pidArgs' = None
        /\ pidStr' = Some(passage_id)
        /\ pidOut' = extract_passage_id_components(passage_id)
    /\ UNCHANGED <<chatVars, rrIn, rrOut, sortIn, sortOut, tsIn, tsOut, confIn, confOut,
                   indexVars>>

PassageIdNext == RenderAndParse \/ ParseForeign

PassageIdSpec == Init /\ [][PassageIdNext]_vars

(***************************************************************************)
(* truncate_snippet on its own: texts of up to MaxText characters over a    *)
(* letter, the space and the tab, two texts longer than a Source snippet,  *)
(* and the bounds from 3 to MaxText and the bound of the Source model.     *)
(***************************************************************************)

MaxText == 5

SnippetAlphabet == {"a", " ", "\t"}

RECURSIVE TextsOfLength(_)
TextsOfLength(n) ==
    IF n = 0 THEN {""}
    ELSE {t \o c : t \in TextsOfLength(n - 1), c \in SnippetAlphabet}

SnippetTexts ==
    UNION {TextsOfLength(n) : n \in 0..MaxText}
    \cup {Rep("y", 201), Text260}

\* the bounds that leave room for the marker
SnippetBounds == (3..MaxText) \cup {SnippetMaxLength}

TruncateCall ==
    /\ tsIn = None
    /\ \E text \in SnippetTexts, max_length \in SnippetBounds :
        /\ tsIn' = Some([text |-> text, max_length |-> max_length])
        /\ tsOut' = truncate_snippet(text, max_length)
    /\ UNCHANGED <<chatVars, rrIn, rrOut, sortIn, sortOut, pidArgs, pidStr, pidOut,
                   confIn, confOut, indexVars>>

SnippetSpec == Init /\ [][TruncateCall]_vars

(***************************************************************************)
(* generate_answer on its own: completions with and without a citation     *)
(* marker or a refusal phrase, of lengths around the two ends of the band  *)
(* of _estimate_confidence, under every finish reason; and failed calls.   *)
(***************************************************************************)

AnswerOpenings ==
    {"", "[ch1-sec1-p1] ", "[selected-text] ", "[sec", "See chapter 1 (ch1-sec1-p1) ",
     "I cannot answer this question ", "There is Insufficient Information "}

AnswerLengths == {40, 49, 50, 51, 499, 500, 501, 640}

ConfidenceFinishReasons == {"stop", "length", "content_filter"}

\* a completion of the given length that starts with the opening
AnswerOf(opening, length) == opening \o Rep("x", length - Len(opening))

ConfidenceOutcomes ==
    {[kind |-> "raise", error |-> e] : e \in ProviderErrors}
    \cup {[kind |-> "text", content |-> AnswerOf(o, n), finish_reason |-> f] :
            o \in AnswerOpenings, n \in AnswerLengths, f \in ConfidenceFinishReasons}

GenerateAnswerCall ==
    /\ confIn = None
    /\ \E outcome \in ConfidenceOutcomes, mode \in {BOOK_WIDE, SELECTED_TEXT} :
        /\ confIn' = Some(outcome)
        /\ confOut' = Some(generate_answer("What is RAG?", Text115, mode,
                                           IF mode = SELECTED_TEXT THEN Some(Text115)
                                           ELSE None, outcome))
    /\ UNCHANGED <<chatVars, rrIn, rrOut, sortIn, sortOut, pidArgs, pidStr, pidOut,
                   tsIn, tsOut, indexVars>>

ConfidenceSpec == Init /\ [][GenerateAnswerCall]_vars

(***************************************************************************)
(* index_all_content as a state machine: one action per stage entry, per   *)
(* pass of a stage's loop and per stage exit.  A file read, the chunking   *)
(* of a file, an embedding call and an upsert call can each fail.          *)
(***************************************************************************)

\* variant: index_all_content without its outer handler, so that an error of
\* the listing leaves it
IndexAllContentUnguarded ==
    /\ ipc = "Idle"
    /\ \E dir \in ContentDirs, size \in BatchSizes, listing \in {"ok", "error"} :
        /\ content_dir' = dir
        /\ batch_size' = size
        /\ IF dir.exists /\ listing = "error"
           THEN /\ md_files' = <<>>
                /\ stats' = InitialStats
                /\ ipc' = "Done"
           ELSE /\ md_files' = dir.files
                /\ stats' = InitialStats
                /\ ipc' = "Extract"
    /\ escaped' = (content_dir'.exists /\ ipc' = "Done")
    /\ fileIdx' = 1
    /\ UNCHANGED <<processed_files, chunk_dicts, batchStart, chunks_with_embeddings,
                   indexed_count, collection, nextId, skipped, embedLog, upsertLog>>
    /\ trace' = <<>>
    /\ UNCHANGED runLog
    /\ UNCHANGED <<chatVars, pureVars>>

\* index_all_content up to list_markdown_files: a missing directory lists
\* as empty; an error of the listing itself reaches the outer handler
IndexAllContent ==
    /\ ipc = "Idle"
    /\ \E dir \in ContentDirs, size \in BatchSizes, listing \in {"ok", "error"} :
        /\ content_dir' = dir
        /\ batch_size' = size
        /\ IF dir.exists /\ listing = "error"
           THEN /\ md_files' = <<>>
                /\ stats' = [InitialStats EXCEPT !.errors = <<"listing failed">>]
                /\ ipc' = "Done"
           ELSE /\ md_files' = dir.files
                /\ stats' = InitialStats
                /\ ipc' = "Extract"
    /\ fileIdx' = 1
    /\ UNCHANGED <<processed_files, chunk_dicts, batchStart, chunks_with_embeddings,
                   indexed_count, collection, nextId, skipped, embedLog, upsertLog,
                   escaped>>
    /\ trace' = <<>>
    /\ UNCHANGED runLog
    /\ UNCHANGED <<chatVars, pureVars>>

\* one pass of the loop of process_all_files: the file is read and parsed,
\* or the failure is logged and the file skipped
ProcessFile ==
    /\ ipc = "Extract"
    /\ fileIdx <= Len(md_files)
    /\ \E readable \in BOOLEAN :
        IF readable
        THEN /\ processed_files' = Append(processed_files, process_file(md_files[fileIdx]))
             /\ skipped' = skipped
        ELSE /\ processed_files' = processed_files
             /\ skipped' = skipped \cup {md_files[fileIdx].file_path}
    /\ fileIdx' = fileIdx + 1
    /\ UNCHANGED <<ipc, content_dir, batch_size, md_files, chunk_dicts, batchStart,
                   chunks_with_embeddings, indexed_count, stats, collection, nextId,
                   embedLog, upsertLog, escaped>>
    /\ trace' = Append(trace, "extract")
    /\ UNCHANGED runLog
    /\ UNCHANGED <<chatVars, pureVars>>

\* variant: stage 1 hands over as soon as one file has been tried
FinishExtractEarly ==
    /\ ipc = "Extract"
    /\ fileIdx > 1
    /\ stats' = [stats EXCEPT !.files_processed = Len(processed_files)]
    /\ ipc' = IF processed_files = <<>> THEN "Done" ELSE "Chunk"
    /\ fileIdx' = 1
    /\ UNCHANGED <<content_dir, batch_size, md_files, processed_files, chunk_dicts,
                   batchStart, chunks_with_embeddings, indexed_count, collection,
                   nextId, skipped, embedLog, upsertLog, escaped>>
    /\ UNCHANGED <<trace, runLog>>
    /\ UNCHANGED <<chatVars, pureVars>>

\* index_all_content lines 160-164: the end of stage 1
FinishExtract ==
    /\ ipc = "Extract"
    /\ fileIdx > Len(md_files)
    /\ stats' = [stats EXCEPT !.files_processed = Len(processed_files)]
    /\ ipc' = IF processed_files = <<>> THEN "Done" ELSE "Chunk"
    /\ fileIdx' = 1
    /\ UNCHANGED <<content_dir, batch_size, md_files, processed_files, chunk_dicts,
                   batchStart, chunks_with_embeddings, indexed_count, collection,
                   nextId, skipped, embedLog, upsertLog, escaped>>
    /\ UNCHANGED <<trace, runLog>>
    /\ UNCHANGED <<chatVars, pureVars>>

\* variant: a chunking failure ends the loop of chunk_all_files
ChunkFileAbort ==
    /\ ipc = "Chunk"
    /\ fileIdx <= Len(processed_files)
    /\ \E ok \in BOOLEAN :
        IF ok
        THEN /\ chunk_dicts' = chunk_dicts \o chunk_file(processed_files[fileIdx])
             /\ skipped' = skipped
             /\ fileIdx' = fileIdx + 1
        ELSE /\ chunk_dicts' = chunk_dicts
             /\ skipped' = skipped \cup {processed_files[fileIdx].file_path}
             /\ fileIdx' = Len(processed_files) + 1
    /\ UNCHANGED <<ipc, content_dir, batch_size, md_files, processed_files, batchStart,
                   chunks_with_embeddings, indexed_count, stats, collection, nextId,
                   embedLog, upsertLog, escaped>>
    /\ trace' = Append(trace, "chunk")
    /\ UNCHANGED runLog
    /\ UNCHANGED <<chatVars, pureVars>>

\* one pass of the loop of chunk_all_files: the chunks of the file are
\* added, or the failure is logged and the file skipped
ChunkFile ==
    /\ ipc = "Chunk"
    /\ fileIdx <= Len(processed_files)
    /\ \E ok \in BOOLEAN :
        IF ok
        THEN /\ chunk_dicts' = chunk_dicts \o chunk_file(processed_files[fileIdx])
             /\ skipped' = skipped
        ELSE /\ chunk_dicts' = chunk_dicts
             /\ skipped' = skipped \cup {processed_files[fileIdx].file_path}
    /\ fileIdx' = fileIdx + 1
    /\ UNCHANGED <<ipc, content_dir, batch_size, md_files, processed_files, batchStart,
                   chunks_with_embeddings, indexed_count, stats, collection, nextId,
                   embedLog, upsertLog, escaped>>
    /\ trace' = Append(trace, "chunk")
    /\ UNCHANGED runLog
    /\ UNCHANGED <<chatVars, pureVars>>

\* variant: chunks_created is set from the list of files
FinishChunkCountsFiles ==
    /\ ipc = "Chunk"
    /\ fileIdx > Len(processed_files)
    /\ stats' = [stats EXCEPT !.chunks_created = Len(processed_files)]
    /\ ipc' = IF chunk_dicts = <<>> THEN "Done" ELSE "Embed"
    /\ batchStart' = 0
    /\ UNCHANGED <<content_dir, batch_size, md_files, fileIdx, processed_files,
                   chunk_dicts, chunks_with_embeddings, indexed_count, collection,
                   nextId, skipped, embedLog, upsertLog, escaped>>
    /\ UNCHANGED <<trace, runLog>>
    /\ UNCHANGED <<chatVars, pureVars>>

\* index_all_content lines 169-173: the end of stage 2
FinishChunk ==
    /\ ipc = "Chunk"
    /\ fileIdx > Len(processed_files)
    /\ stats' = [stats EXCEPT !.chunks_created = Len(chunk_dicts)]
    /\ ipc' = IF chunk_dicts = <<>> THEN "Done" ELSE "Embed"
    /\ batchStart' = 0
    /\ UNCHANGED <<content_dir, batch_size, md_files, fileIdx, processed_files,
                   chunk_dicts, chunks_with_embeddings, indexed_count, collection,
                   nextId, skipped, embedLog, upsertLog, escaped>>
    /\ UNCHANGED <<trace, runLog>>
    /\ UNCHANGED <<chatVars, pureVars>>

\* one pass of the loop of generate_embeddings_for_chunks
EmbedBatch ==
    /\ ipc = "Embed"
    /\ batchStart < Len(chunk_dicts)
    /\ \E provider \in {"ok", "error"} :
        LET batch == Batch(chunk_dicts, batchStart, batch_size)
            r == embed_batch(batch, provider, nextId)
        IN  /\ chunks_with_embeddings' = chunks_with_embeddings \o r.chunks
            /\ nextId' = nextId + r.ids
            /\ embedLog' = Append(embedLog,
                              [first |-> batchStart + 1, size |-> Len(batch),
                               provider |-> provider, failed |-> r.failed])
    /\ batchStart' = batchStart + batch_size
    /\ UNCHANGED <<ipc, content_dir, batch_size, md_files, fileIdx, processed_files,
                   chunk_dicts, indexed_count, stats, collection, skipped, upsertLog,
                   escaped>>
    /\ trace' = Append(trace, "embed")
    /\ UNCHANGED runLog
    /\ UNCHANGED <<chatVars, pureVars>>

\* index_all_content lines 178-182: the end of stage 3
FinishEmbed ==
    /\ ipc = "Embed"
    /\ batchStart >= Len(chunk_dicts)
    /\ stats' = [stats EXCEPT !.chunks_embedded = Len(chunks_with_embeddings)]
    /\ ipc' = IF chunks_with_embeddings = <<>> THEN "Done" ELSE "Index"
    /\ batchStart' = 0
    /\ UNCHANGED <<content_dir, batch_size, md_files, fileIdx, processed_files,
                   chunk_dicts, chunks_with_embeddings, indexed_count, collection,
                   nextId, skipped, embedLog, upsertLog, escaped>>
    /\ UNCHANGED <<trace, runLog>>
    /\ UNCHANGED <<chatVars, pureVars>>

\* variant: a failed upsert ends the loop of index_chunks
UpsertBatchStopOnFailure ==
    /\ ipc = "Index"
    /\ batchStart < Len(chunks_with_embeddings)
    /\ \E success \in BOOLEAN :
        LET batch == Batch(chunks_with_embeddings, batchStart, batch_size)
            points == [i \in 1..Len(batch) |-> PointStruct(batch[i])]
        IN  /\ collection' = IF success THEN collection \o points ELSE collection
            /\ indexed_count' = IF success THEN indexed_count + Len(batch)
                                ELSE indexed_count
            /\ upsertLog' = Append(upsertLog,
                               [first |-> batchStart + 1, size |-> Len(batch),
                                success |-> success])
        /\ batchStart' = IF success THEN batchStart + batch_size
                         ELSE Len(chunks_with_embeddings)
    /\ UNCHANGED <<ipc, content_dir, batch_size, md_files, fileIdx, processed_files,
                   chunk_dicts, chunks_with_embeddings, stats, nextId, skipped,
                   embedLog, escaped>>
    /\ trace' = Append(trace, "upsert")
    /\ UNCHANGED runLog
    /\ UNCHANGED <<chatVars, pureVars>>

\* one pass of the loop of index_chunks: upsert_points adds the batch's
\* points and returns True, or catches the client's error and returns False
UpsertBatch ==
    /\ ipc = "Index"
    /\ batchStart < Len(chunks_with_embeddings)
    /\ \E success \in BOOLEAN :
        LET batch == Batch(chunks_with_embeddings, batchStart, batch_size)
            points == [i \in 1..Len(batch) |-> PointStruct(batch[i])]
        IN  /\ collection' = IF success THEN collection \o points ELSE collection
            /\ indexed_count' = IF success THEN indexed_count + Len(batch)
                                ELSE indexed_count
            /\ upsertLog' = Append(upsertLog,
                               [first |-> batchStart + 1, size |-> Len(batch),
                                success |-> success])
    /\ batchStart' = batchStart + batch_size
    /\ UNCHANGED <<ipc, content_dir, batch_size, md_files, fileIdx, processed_files,
                   chunk_dicts, chunks_with_embeddings, stats, nextId, skipped,
                   embedLog, escaped>>
    /\ trace' = Append(trace, "upsert")
    /\ UNCHANGED runLog
    /\ UNCHANGED <<chatVars, pureVars>>

\* index_all_content lines 186-195: the end of stage 4 and the return
FinishIndex ==
    /\ ipc = "Index"
    /\ batchStart >= Len(chunks_with_embeddings)
    /\ stats' = [stats EXCEPT !.chunks_indexed = indexed_count]
    /\ ipc' = "Done"
    /\ UNCHANGED <<content_dir, batch_size, md_files, fileIdx, processed_files,
                   chunk_dicts, batchStart, chunks_with_embeddings, indexed_count,
                   collection, nextId, skipped, embedLog, upsertLog, escaped>>
    /\ UNCHANGED <<trace, runLog>>
    /\ UNCHANGED <<chatVars, pureVars>>

\* the calls of the run that failed: the listing, a file read or chunking,
\* an embedding call, an upsert
FailedCalls ==
    Len(stats.errors)
    + Cardinality(skipped)
    + Cardinality({k \in DOMAIN embedLog : embedLog[k].provider = "error"})
    + Cardinality({k \in DOMAIN upsertLog : ~upsertLog[k].success})

\* index_all_content line 195: the stats go to the caller and the lists of
\* the run are dropped; the service object and the index remain
ReturnStats ==
    /\ ipc = "Done"
    /\ Len(runLog) < MaxOps
    /\ Len(md_files) <= MaxReindexFiles
    /\ FailedCalls <= MaxEarlierFailures
    /\ ipc' = "Returned"
    /\ runLog' = Append(runLog,
                     [op |-> "index", failed |-> FailedCalls,
                      chunks |-> {chunk_dicts[k].passage_id : k \in DOMAIN chunk_dicts},
                      ids |-> {chunks_with_embeddings[k].id :
                                  k \in DOMAIN chunks_with_embeddings},
                      points |-> Len(collection)])
    /\ md_files' = <<>>
    /\ fileIdx' = 1
    /\ processed_files' = <<>>
    /\ chunk_dicts' = <<>>
    /\ batchStart' = 0
    /\ chunks_with_embeddings' = <<>>
    /\ indexed_count' = 0
    /\ skipped' = {}
    /\ embedLog' = <<>>
    /\ upsertLog' = <<>>
    /\ trace' = <<>>
    /\ UNCHANGED <<content_dir, batch_size, stats, collection, nextId, escaped>>
    /\ UNCHANGED <<chatVars, pureVars>>

\* index_all_content called once more on the same IndexingService: the same
\* content directory is listed again
Reindex ==
    /\ ipc = "Returned"
    /\ \E size \in BatchSizes, listing \in {"ok", "error"} :
        /\ batch_size' = size
        /\ IF content_dir.exists /\ listing = "error"
           THEN /\ md_files' = <<>>
                /\ stats' = [InitialStats EXCEPT !.errors = <<"listing failed">>]
                /\ ipc' = "Done"
           ELSE /\ md_files' = content_dir.files
                /\ stats' = InitialStats
                /\ ipc' = "Extract"
    /\ fileIdx' = 1
    /\ trace' = <<>>
    /\ UNCHANGED <<content_dir, processed_files, chunk_dicts, batchStart,
                   chunks_with_embeddings, indexed_count, collection, nextId, skipped,
                   embedLog, upsertLog, escaped, runLog>>
    /\ UNCHANGED <<chatVars, pureVars>>

\* clear_collection: delete_collection drops the collection with all its
\* points and returns True, or catches the client's error and returns False
ClearCollection ==
    /\ ipc = "Returned"
    /\ Len(runLog) < MaxOps
    /\ \E success \in BOOLEAN :
        /\ collection' = IF success THEN <<>> ELSE collection
        /\ runLog' = Append(runLog, [op |-> "clear", success |-> success])
    /\ UNCHANGED <<ipc, content_dir, batch_size, md_files, fileIdx, processed_files,
                   chunk_dicts, batchStart, chunks_with_embeddings, indexed_count, stats,
                   nextId, skipped, embedLog, upsertLog, escaped, trace>>
    /\ UNCHANGED <<chatVars, pureVars>>

IndexNext ==
    \/ IndexAllContent
    \/ ProcessFile
    \/ FinishExtract
    \/ ChunkFile
    \/ FinishChunk
    \/ EmbedBatch
    \/ FinishEmbed
    \/ UpsertBatch
    \/ FinishIndex

IndexSpec == Init /\ [][IndexNext]_vars

\* runs that follow one another on one service, and deletions of the
\* collection between them
ReindexNext ==
    \/ IndexNext
    \/ ReturnStats
    \/ Reindex
    \/ ClearCollection

ReindexSpec == Init /\ [][ReindexNext]_vars

(***************************************************************************)
(* The chat handler in front of an index that earlier runs have filled.   *)
(***************************************************************************)

\* the points one run with no failure leaves for one file: stages 1 to 4
\* of index_all_content in one batch
IndexedPoints(file) ==
    LET r == embed_batch(chunk_file(process_file(file)), "ok", 1)
    IN  [i \in 1..Len(r.chunks) |-> PointStruct(r.chunks[i])]

\* what the collection holds when the server starts: nothing, or the
\* points of an earlier run
ServedCollections == {<<>>, IndexedPoints(FileIntro)}

ServeInit ==
    /\ InitServer
    /\ collection \in ServedCollections

ServeSpec == ServeInit /\ [][Next]_vars

(***************************************************************************)
(* Two requests served side by side.  Each handler owns its locals; the   *)
(* module-level client of utils/qdrant_client.py is the one object they   *)
(* share.  A handler gives way to the other at its calls to the outside:  *)
(* where the server runs the coroutine without a suspension point the     *)
(* interleavings are a subset of these.                                    *)
(***************************************************************************)

ConcurrentRequests ==
    { [query |-> "What is RAG?", mode |-> BOOK_WIDE, context |-> None],
      [query |-> "  ", mode |-> BOOK_WIDE, context |-> None],
      [query |-> " chunk \n size? ", mode |-> SELECTED_TEXT,
       context |-> Some("RAG means retrieval augmented generation.")],
      [query |-> "What is RAG?", mode |-> SELECTED_TEXT, context |-> None] }

ConcurrentSearchOutcomes ==
    { [kind |-> "raise"],
      [kind |-> "hits", hits |-> <<Hit("b", 880, PayloadB), Hit("a", 800, PayloadA)>>],
      [kind |-> "hits", hits |-> <<Hit("a", 950, PayloadA), Hit("n", 700, PayloadNoId)>>] }

ConcurrentGenerationOutcomes ==
    { [kind |-> "raise", error |-> "Connection error."],
      [kind |-> "nochoices"],
      [kind |-> "text", finish_reason |-> "stop",
       content |-> "RAG grounds answers in retrieved passages of the book [ch1-sec1-p1]."],
      [kind |-> "text", finish_reason |-> "length", content |-> "Yes."] }

\* chat.py lines 126-145 for handler h
ReceiveRequest(h) ==
    /\ handlers[h].pc = "Idle"
    /\ \E r \in ConcurrentRequests :
        handlers' = [handlers EXCEPT ![h] =
            [@ EXCEPT !.request = r,
                      !.alongside = \E o \in Handlers \ {h} :
                                       handlers[o].pc \in UnderWay,
                      !.query = sanitize_text(r.query),
                      !.pc = IF validate_query_text(sanitize_text(r.query))
                                /\ validate_context_text(r.context, r.mode)
                             THEN "Validated" ELSE "Rejected"]]
    /\ UNCHANGED qdrant_client
    /\ UNCHANGED <<handlerVars, pureVars, indexVars>>

\* chat.py lines 148-149: RetrievalService() takes the module-level client
\* from get_qdrant_client, which creates it when it is None
InitializeServices(h) ==
    /\ handlers[h].pc = "Validated"
    /\ qdrant_client' = IF qdrant_client = None THEN Some(h) ELSE qdrant_client
    /\ handlers' = [handlers EXCEPT ![h] =
            [@ EXCEPT !.client = qdrant_client', !.pc = "Ready"]]
    /\ UNCHANGED <<handlerVars, pureVars, indexVars>>

\* retrieve_chunks, first half, for handler h
GenerateQueryEmbedding(h) ==
    /\ handlers[h].pc = "Ready"
    /\ handlers[h].request.mode = BOOK_WIDE
    /\ \E ok \in BOOLEAN :
        handlers' = [handlers EXCEPT ![h] =
            [@ EXCEPT !.embedded = Some(ok),
                      !.pc = IF ok THEN "Searching" ELSE "Refused",
                      !.response = IF ok THEN None
                                   ELSE Some(NoChunksResponse(handlers[h].request.mode))]]
    /\ UNCHANGED qdrant_client
    /\ UNCHANGED <<handlerVars, pureVars, indexVars>>

\* retrieve_chunks, second half, and the rest of the book-wide branch for
\* handler h, through the client the handler holds
RetrieveAndRerank(h) ==
    /\ handlers[h].pc = "Searching"
    /\ handlers[h].client # None
    /\ \E outcome \in ConcurrentSearchOutcomes :
        LET sorted_chunks ==
                sort_by_document_order(rerank_by_section_proximity(search(outcome)))
        IN  handlers' = [handlers EXCEPT ![h] =
                IF search(outcome) = <<>>
                THEN [@ EXCEPT !.searched = Some(outcome),
                               !.pc = "Refused",
                               !.response = Some(NoChunksResponse(handlers[h].request.mode))]
                ELSE [@ EXCEPT !.searched = Some(outcome),
                               !.sources = chunks_to_sources(sorted_chunks),
                               !.context = get_context_text(sorted_chunks),
                               !.pc = "Generating"]]
    /\ UNCHANGED qdrant_client
    /\ UNCHANGED <<handlerVars, pureVars, indexVars>>

\* the selected-text branch for handler h
UseSelectedText(h) ==
    /\ handlers[h].pc = "Ready"
    /\ handlers[h].request.mode = SELECTED_TEXT
    /\ LET text == handlers[h].request.context[1]
           snippet == SelectedSnippet(text)
       IN  handlers' = [handlers EXCEPT ![h] =
               IF SourceValid("selected-text", "User-Selected Text", "User Selection",
                              None, snippet)
               THEN [@ EXCEPT !.context = text,
                              !.sources = <<Source("selected-text", "User-Selected Text",
                                                   "User Selection", None, snippet)>>,
                              !.pc = "Generating"]
               ELSE [@ EXCEPT !.pc = "Refused",
                              !.response = Some(InternalErrorResponse(handlers[h].request.mode,
                                                   "1 validation error for Source"))]]
    /\ UNCHANGED qdrant_client
    /\ UNCHANGED <<handlerVars, pureVars, indexVars>>

\* what lines 191-222 return for a request, its query, context and sources
\* and the provider's outcome
RespondTo(r, q, ctx, srcs, outcome) ==
    LET user_context == IF r.mode = SELECTED_TEXT THEN r.context ELSE None
        g == generate_answer(q, ctx, r.mode, user_context, outcome)
    IN  ChatResponse(IF g.refused THEN REFUSAL_MESSAGE ELSE g.answer,
                     IF g.refused THEN <<>> ELSE srcs,
                     g.refused, g.refusal_reason, g.confidence, r.mode)

\* variant: the sources list is kept in one place for all handlers, and
\* the other handler has written it
GenerateAnswerSharedSources(h) ==
    /\ handlers[h].pc = "Generating"
    /\ \E outcome \in ConcurrentGenerationOutcomes :
        LET other == CHOOSE o \in Handlers : o # h
            srcs == IF handlers[other].sources # <<>> THEN handlers[other].sources
                    ELSE handlers[h].sources
            resp == RespondTo(handlers[h].request, handlers[h].query,
                              handlers[h].context, srcs, outcome)
        IN  handlers' = [handlers EXCEPT ![h] =
                [@ EXCEPT !.generated = Some(outcome),
                          !.response = Some(resp),
                          !.sources = resp.sources,
                          !.pc = IF resp.refused THEN "Refused" ELSE "Answered"]]
    /\ UNCHANGED qdrant_client
    /\ UNCHANGED <<handlerVars, pureVars, indexVars>>

\* lines 191-222 for handler h
GenerateAnswer(h) ==
    /\ handlers[h].pc = "Generating"
    /\ \E outcome \in ConcurrentGenerationOutcomes :
        LET resp == RespondTo(handlers[h].request, handlers[h].query,
                              handlers[h].context, handlers[h].sources, outcome)
        IN  handlers' = [handlers EXCEPT ![h] =
                [@ EXCEPT !.generated = Some(outcome),
                          !.response = Some(resp),
                          !.sources = resp.sources,
                          !.pc = IF resp.refused THEN "Refused" ELSE "Answered"]]
    /\ UNCHANGED qdrant_client
    /\ UNCHANGED <<handlerVars, pureVars, indexVars>>

ConcurrentNext ==
    \/ \E h \in Handlers : ReceiveRequest(h)
    \/ \E h \in Handlers : InitializeServices(h)
    \/ \E h \in Handlers : GenerateQueryEmbedding(h)
    \/ \E h \in Handlers : RetrieveAndRerank(h)
    \/ \E h \in Handlers : UseSelectedText(h)
    \/ \E h \in Handlers : GenerateAnswer(h)

ConcurrentSpec == ServeInit /\ [][ConcurrentNext]_vars

\* the handler run from its first line to its return for one request on its
\* own, given what the three outside calls do
AnswerAlone(r, embedded, searched, generated) ==
    LET q == sanitize_text(r.query)
    IN  IF ~(validate_query_text(q) /\ validate_context_text(r.context, r.mode))
        THEN None
        ELSE IF r.mode = BOOK_WIDE
        THEN IF embedded = None \/ (embedded[1] /\ searched = None)
             THEN None
             ELSE IF ~embedded[1] \/ search(searched[1]) = <<>>
             THEN Some(NoChunksResponse(r.mode))
             ELSE IF generated = None THEN None
             ELSE LET sorted_chunks == sort_by_document_order(
                                          rerank_by_section_proximity(search(searched[1])))
                  IN  Some(RespondTo(r, q, get_context_text(sorted_chunks),
                                     chunks_to_sources(sorted_chunks), generated[1]))
        ELSE LET text == r.context[1]
                 snippet == SelectedSnippet(text)
             IN  IF ~SourceValid("selected-text", "User-Selected Text",
                                 "User Selection", None, snippet)
                 THEN Some(InternalErrorResponse(r.mode, "1 validation error for Source"))
                 ELSE IF generated = None THEN None
                 ELSE Some(RespondTo(r, q, text,
                                     <<Source("selected-text", "User-Selected Text",
                                              "User Selection", None, snippet)>>,
                                     generated[1]))

(***************************************************************************)
(* Properties.                                                             *)
(***************************************************************************)

InFlight == pc \in {"Validated", "Searching", "Generating"}

Returned == response # None

\* C1: every returned Answer satisfies the refusal invariant: refused
\* implies no sources and a refusal reason; not refused implies sources,
\* a non-empty answer text and no refusal reason.
RefusalInvariant ==
    Returned =>
        LET r == response[1]
        IN  /\ r.refused => r.sources = <<>> /\ r.refusal_reason # None
            /\ ~r.refused => /\ r.sources # <<>>
                             /\ r.answer # ""
                             /\ r.refusal_reason = None

\* C2: no Answer is returned with refused = false when its confidence is
\* below the confidence threshold or the context handed to generation is
\* shorter than the minimum context length after trimming.
SecondRefusalGate ==
    Returned /\ generation # None =>
        \/ response[1].refused
        \/ /\ response[1].confidence >= confidence_threshold
           /\ Len(Strip(context)) >= min_context_length

\* a selected-text request without text, or a book-wide request with text
ModeContextMismatch(r) ==
    \/ r.mode = SELECTED_TEXT /\ (r.context = None \/ r.context[1] = "")
    \/ r.mode = BOOK_WIDE /\ r.context # None /\ r.context[1] # ""

\* C3: a selected-text request with empty or absent context, and a
\* book-wide request with non-empty context, is rejected with a validation
\* error before any provider call is made.
RejectedBeforeProviders ==
    pc # "Idle" /\ ModeContextMismatch(request) =>
        /\ pc = "Rejected"
        /\ response = None
        /\ embedCalls = 0
        /\ searchCalls = 0
        /\ genCalls = 0

\* a book-wide request with a valid query and a non-empty context, rejected
RejectedBeforeProvidersWitness ==
    /\ pc = "Rejected"
    /\ request.mode = BOOK_WIDE
    /\ request.context # None
    /\ request.context[1] # ""
    /\ query # ""

\* C4: in book-wide mode, when the embedding call raises or the index
\* search fails, retrieval yields ([], []) and the handler returns the
\* refusal "No relevant content found in book" with no sources and
\* confidence 0, without calling the generation provider.
RetrievalFaultRefuses ==
    fault # "none" =>
        /\ pc \in {"Refused", "Idle"}
        /\ retrieved = <<>>
        /\ chunks = <<>>
        /\ genCalls = 0
        /\ generation = None
        /\ Returned
        /\ response[1].refused
        /\ response[1].refusal_reason = Some("No relevant content found in book")
        /\ response[1].answer = REFUSAL_MESSAGE
        /\ response[1].sources = <<>>
        /\ response[1].confidence = 0

\* the embedding call raised and the request was refused
RetrievalFaultRefusesWitness ==
    /\ pc = "Refused"
    /\ fault = "embedding"
    /\ embedCalls = 1
    /\ searchCalls = 0

\* the provider returned text that holds a refusal phrase in any case
GeneratedRefusalPhrase ==
    /\ generation # None
    /\ generation[1].kind = "text"
    /\ \E phrase \in refusal_patterns : ContainsLower(generation[1].content, phrase)

\* C5: whenever the generated text contains one of the refusal phrases
\* (case-insensitively), the Answer is refused, its text is the canonical
\* refusal message, its confidence is 0 and its sources are empty.
RefusalPhraseForcesRefusal ==
    GeneratedRefusalPhrase =>
        /\ Returned
        /\ response[1].refused
        /\ response[1].answer = REFUSAL_MESSAGE
        /\ response[1].confidence = 0
        /\ response[1].sources = <<>>
        /\ sources = <<>>

\* book-wide, chunks retrieved, and a refusal phrase in other letter case
\* than the pattern
RefusalPhraseForcesRefusalWitness ==
    /\ pc = "Refused"
    /\ GeneratedRefusalPhrase
    /\ ~(\E phrase \in refusal_patterns : Contains(generation[1].content, phrase))
    /\ request.mode = BOOK_WIDE
    /\ Len(chunks) >= 2

\* C6: when the generation call raises or returns a malformed response, the
\* handler still returns: a refused Answer with confidence 0, no sources,
\* and a reason that is neither the no-evidence reason nor the
\* refusal-phrase reason.
GenerationFaultRefuses ==
    generation # None /\ generation[1].kind # "text" =>
        /\ pc \in {"Refused", "Idle"}
        /\ Returned
        /\ response[1].refused
        /\ response[1].confidence = 0
        /\ response[1].sources = <<>>
        /\ response[1].refusal_reason # None
        /\ response[1].refusal_reason # Some("No relevant content found in book")
        /\ response[1].refusal_reason # Some("Insufficient context to answer question")

\* the provider raised with a message equal to another refusal reason
GenerationFaultRefusesWitness ==
    /\ pc = "Refused"
    /\ generation # None
    /\ generation[1].kind = "raise"
    /\ generation[1].error = "Insufficient context to answer question"

\* C7: every validated request ends in exactly one terminal outcome,
\* Answered or Refused, whatever the providers do; the outcome then stays,
\* and the generation provider is called at most once for the request.
OneTerminalOutcome ==
    /\ [](genCalls <= 1)
    /\ [](pc \in Terminal => Returned /\ (pc = "Refused") = response[1].refused)
    /\ [](InFlight => ~Returned)
    /\ (InFlight ~> pc \in Terminal)
    /\ [][(pc \in Terminal) => (pc' = "Idle" /\ response' = response)]_vars

\* the one generation call raised and the request ended Refused
OneTerminalOutcomeWitness ==
    /\ pc = "Refused"
    /\ genCalls = 1
    /\ generation # None
    /\ generation[1].kind = "raise"

\* C8: every valid selected-text request reaches generation: exactly one
\* provider call with the user's text, and an Answer that is not refused
\* carries exactly the one sentinel Source with a bounded snippet.
SelectedTextReachesGeneration ==
    pc \in Terminal /\ request.mode = SELECTED_TEXT =>
        /\ genCalls = 1
        /\ prompt # None
        /\ prompt[1].body = request.context[1]
        /\ ~response[1].refused =>
              /\ Len(response[1].sources) = 1
              /\ response[1].sources[1].passage_id = "selected-text"
              /\ Len(response[1].sources[1].snippet) <= SnippetMaxLength

\* the "[passage_id] text" tag of a chunk
Tagged(chunk) ==
    "[" \o Get(chunk.payload, "passage_id", "unknown") \o "] " \o Get(chunk.payload, "text", "")

RECURSIVE TaggedLength(_)
TaggedLength(cs) ==
    IF cs = <<>> THEN 0
    ELSE Len(Tagged(Head(cs))) + (IF Len(cs) > 1 THEN 2 ELSE 0) + TaggedLength(Tail(cs))

\* body consists of the tagged passages of cs and their separators only
OnlyTaggedPassages(body, cs) ==
    /\ cs # <<>>
    /\ \A i \in 1..Len(cs) : Contains(body, Tagged(cs[i]))
    /\ Slice(body, 1, Len(Tagged(cs[1]))) = Tagged(cs[1])
    /\ Len(body) = TaggedLength(cs)

\* C9: strict mode isolation.  Selected-text mode queries neither the
\* embedding provider nor the index, and its prompt holds the user's text
\* and the query and nothing retrieved, so the same query and context give
\* the same prompt as before; the book-wide prompt holds only the tagged
\* retrieved passages and no user context; the two modes' instruction
\* texts differ.
StrictModeIsolation ==
    /\ pc # "Idle" /\ request.mode = SELECTED_TEXT =>
          /\ embedCalls = 0
          /\ searchCalls = 0
          /\ retrieved = <<>>
          /\ chunks = <<>>
    /\ prompt # None /\ request.mode = SELECTED_TEXT =>
          /\ prompt[1].body = request.context[1]
          /\ prompt[1].query = sanitize_text(request.query)
          /\ lastSelected # None
             /\ lastSelected[1].query = request.query
             /\ lastSelected[1].context = request.context
             => lastSelected[1].prompt = prompt[1]
    /\ prompt # None /\ request.mode = BOOK_WIDE =>
          /\ request.context = None \/ request.context[1] = ""
          /\ OnlyTaggedPassages(prompt[1].body, chunks)
          /\ prompt[1].query = sanitize_text(request.query)
          /\ lastSelected # None =>
                /\ lastSelected[1].prompt.header # prompt[1].header
                /\ lastSelected[1].prompt.instructions # prompt[1].instructions

\* a book-wide prompt over several passages, after a selected-text request
StrictModeIsolationWitness ==
    /\ prompt # None
    /\ request.mode = BOOK_WIDE
    /\ Len(chunks) >= 2
    /\ lastSelected # None

\* the chapter of the first chunk, in retrieval order, whose chapter has
\* the highest chunk count
MajorityChapter(cs) ==
    LET i == CHOOSE k \in 1..Len(cs) :
                /\ \A j \in 1..Len(cs) :
                      ChapterCount(cs, ChapterOf(cs[j])) <= ChapterCount(cs, ChapterOf(cs[k]))
                /\ \A j \in 1..(k - 1) :
                      ChapterCount(cs, ChapterOf(cs[j])) < ChapterCount(cs, ChapterOf(cs[k]))
    IN  ChapterOf(cs[i])

\* C10: rerank boosts exactly one chapter, the one with the highest chunk
\* count and on a tie the one met first in retrieval order: its chunks get
\* score x 1.1, all others keep their score, and no original score changes.
BoostsMajorityChapter ==
    rrIn # <<>> =>
        /\ \A k \in 1..Len(rrOut) :
              \E i \in 1..Len(rrIn) :
                  /\ rrOut[k].id = rrIn[i].id
                  /\ rrOut[k].score = rrIn[i].score
                  /\ rrOut[k].payload = rrIn[i].payload
                  /\ rrOut[k].boosted_score =
                        IF ChapterOf(rrIn[i]) = MajorityChapter(rrIn)
                        THEN 11 * rrIn[i].score ELSE 10 * rrIn[i].score
        /\ Len(rrIn) <= top_k_rerank =>
              \A i \in 1..Len(rrIn) : \E k \in 1..Len(rrOut) : rrOut[k].id = rrIn[i].id

\* two chapters tie on the count, the later-met one comes first by name,
\* and the output holds a boosted and an unboosted chunk
BoostsMajorityChapterWitness ==
    /\ Len(rrIn) = 4
    /\ ChapterOf(rrIn[1]) = "Chapter 2: Retrieval"
    /\ ChapterCount(rrIn, "Chapter 2: Retrieval") = 2
    /\ ChapterCount(rrIn, "Chapter 1: Intro") = 2
    /\ \E k \in 1..Len(rrOut) : rrOut[k].boosted_score = 11 * rrOut[k].score
    /\ \E k \in 1..Len(rrOut) : rrOut[k].boosted_score = 10 * rrOut[k].score

\* the boosted score the rerank gives the i-th retrieved chunk
BoostedScoreOf(cs, i) ==
    IF ChapterOf(cs[i]) = MajorityChapter(cs) THEN 11 * cs[i].score ELSE 10 * cs[i].score

\* C11: for n retrieved chunks and rerank width M the reranked output has
\* exactly min(n, M) chunks, is ordered by non-increasing boosted score, and
\* is a top-M selection: the kept chunks are distinct retrieved chunks and
\* no chunk left out has a strictly higher boosted score than a kept one.
RerankedTopM ==
    rrIn # <<>> =>
        /\ Len(rrOut) = (IF Len(rrIn) < top_k_rerank THEN Len(rrIn) ELSE top_k_rerank)
        /\ \A k \in 1..(Len(rrOut) - 1) :
              rrOut[k].boosted_score >= rrOut[k + 1].boosted_score
        /\ \A k \in 1..Len(rrOut) : \A l \in 1..Len(rrOut) :
              rrOut[k].id = rrOut[l].id => k = l
        /\ \A k \in 1..Len(rrOut) : \E i \in 1..Len(rrIn) :
              /\ rrOut[k].id = rrIn[i].id
              /\ rrOut[k].boosted_score = BoostedScoreOf(rrIn, i)
        /\ \A i \in 1..Len(rrIn) :
              (\A k \in 1..Len(rrOut) : rrOut[k].id # rrIn[i].id) =>
                  \A k \in 1..Len(rrOut) :
                      BoostedScoreOf(rrIn, i) <= rrOut[k].boosted_score

\* more chunks retrieved than the rerank width, and the boost lifts the
\* chunk retrieved last into the kept ones while an earlier one is dropped
RerankedTopMWitness ==
    /\ Len(rrIn) > top_k_rerank
    /\ Len(rrOut) = top_k_rerank
    /\ \E k \in 1..Len(rrOut) : rrOut[k].id = rrIn[Len(rrIn)].id
    /\ \E i \in 1..top_k_rerank : \A k \in 1..Len(rrOut) : rrOut[k].id # rrIn[i].id

\* the chunk carries a passage identifier
HasId(chunk) == "passage_id" \in DOMAIN chunk.payload

\* the chunk's identifier parses to a triple
Parseable(chunk) ==
    HasId(chunk) /\ extract_passage_id_components(chunk.payload.passage_id) # None

\* the chunk's identifier does not parse
Unparseable(chunk) ==
    HasId(chunk) /\ extract_passage_id_components(chunk.payload.passage_id) = None

\* (chapter, section, page) of a <= that of b
DocumentOrderLeq(a, b) ==
    LET x == extract_passage_id_components(a.payload.passage_id)
        y == extract_passage_id_components(b.payload.passage_id)
    IN  \/ x[1] < y[1]
        \/ x[1] = y[1] /\ x[2] < y[2]
        \/ x[1] = y[1] /\ x[2] = y[2] /\ x[3] <= y[3]

\* C12: sort_by_document_order returns a permutation of its input in which
\* the chunks with parseable identifiers are in non-decreasing (chapter,
\* section, page) order and every chunk with an unparseable identifier comes
\* after every chunk with a parseable one, whatever the magnitude of the
\* numbers and whatever the scores.
DocumentOrderSorted ==
    sortIn # <<>> =>
        /\ Len(sortOut) = Len(sortIn)
        /\ \A i \in 1..Len(sortIn) : \E k \in 1..Len(sortOut) : sortOut[k] = sortIn[i]
        /\ \A k \in 1..Len(sortOut) : \A l \in 1..Len(sortOut) :
              (k < l /\ Parseable(sortOut[k]) /\ Parseable(sortOut[l]))
                  => DocumentOrderLeq(sortOut[k], sortOut[l])
        /\ \A k \in 1..Len(sortOut) : \A l \in 1..Len(sortOut) :
              (Unparseable(sortOut[k]) /\ Parseable(sortOut[l])) => l < k

\* t is a non-empty run of decimal digits
AllDigits(t) == Len(t) > 0 /\ \A i \in 1..Len(t) : CharAt(t, i) \in Digits

\* s has the form ch{N}-sec{M}-p{P}
WellFormedId(s) ==
    \E i \in 3..Len(s) : \E j \in (i + 4)..Len(s) :
        /\ Slice(s, 1, 2) = "ch"
        /\ AllDigits(Slice(s, 3, i - 1))
        /\ Slice(s, i, i + 3) = "-sec"
        /\ AllDigits(Slice(s, i + 4, j - 1))
        /\ Slice(s, j, j + 1) = "-p"
        /\ AllDigits(Slice(s, j + 2, Len(s)))

\* C13: passage identifiers round-trip: parsing the identifier generated
\* from positive chapter, section and page gives back that triple, and any
\* string not of the form ch{N}-sec{M}-p{P} parses to none.
PassageIdRoundTrip ==
    /\ pidArgs # None => pidOut = pidArgs[1]
    /\ (pidStr # None /\ ~WellFormedId(pidStr[1])) => pidOut = None

\* the first half of C13 alone
RenderedIdParsesBack == pidArgs # None => pidOut = pidArgs[1]

\* C14: within one indexing run no two chunks the chunking stage produced
\* carry the same passage identifier, and the chapter, section and page of
\* every identifier are positive integers.
UniquePositivePassageIds ==
    /\ \A i \in 1..Len(chunk_dicts) : \A j \in 1..Len(chunk_dicts) :
          i # j => chunk_dicts[i].passage_id # chunk_dicts[j].passage_id
    /\ \A i \in 1..Len(chunk_dicts) :
          LET c == extract_passage_id_components(chunk_dicts[i].passage_id)
          IN  c # None /\ c[1] >= 1 /\ c[2] >= 1 /\ c[3] >= 1

\* C15: the chunking stage's output never holds a chunk whose text is
\* shorter than 100 or longer than 2000 characters.
ChunkLengthWithinBounds ==
    \A i \in 1..Len(chunk_dicts) :
        Len(chunk_dicts[i].text) >= 100 /\ Len(chunk_dicts[i].text) <= 2000

\* index_all_content has returned
IndexingReturned == ipc = "Done"

\* C16: index_all_content never raises, whatever fails inside it: it always
\* returns a stats record with the fields files_processed, chunks_created,
\* chunks_embedded, chunks_indexed and errors; for a missing corpus root all
\* counters are 0 and no embedding or upsert call is made.
IndexingNeverRaises ==
    /\ ~escaped
    /\ IndexingReturned =>
          /\ DOMAIN stats = {"files_processed", "chunks_created", "chunks_embedded",
                             "chunks_indexed", "errors"}
          /\ \A f \in {"files_processed", "chunks_created", "chunks_embedded",
                        "chunks_indexed"} : stats[f] \in Nat
          /\ DOMAIN stats.errors = 1..Len(stats.errors)
    /\ (IndexingReturned /\ ~content_dir.exists) =>
          /\ stats.files_processed = 0
          /\ stats.chunks_created = 0
          /\ stats.chunks_embedded = 0
          /\ stats.chunks_indexed = 0
    /\ ~content_dir.exists => embedLog = <<>> /\ upsertLog = <<>>

\* a run that returned after a file read, the chunking of a file, an
\* embedding batch and an upsert batch had each failed
IndexingNeverRaisesWitness ==
    /\ IndexingReturned
    /\ \E i \in 1..Len(md_files) :
          /\ md_files[i].file_path \in skipped
          /\ \A k \in 1..Len(processed_files) :
                processed_files[k].file_path # md_files[i].file_path
    /\ \E k \in 1..Len(processed_files) : processed_files[k].file_path \in skipped
    /\ \E k \in 1..Len(embedLog) : embedLog[k].failed
    /\ \E k \in 1..Len(upsertLog) : ~upsertLog[k].success
    /\ stats.chunks_created > 0

RECURSIVE ChunksOfFiles(_, _)
\* the chunks of a run over the files outside the set of paths left out, in
\* which nothing fails
ChunksOfFiles(files, left_out) ==
    IF files = <<>> THEN <<>>
    ELSE (IF Head(files).file_path \in left_out THEN <<>>
          ELSE chunk_file(process_file(Head(files))))
            \o ChunksOfFiles(Tail(files), left_out)

\* C17: when extraction or chunking of one file fails only that file is
\* skipped: every other file is still extracted, and the chunks of the run
\* are exactly those of a run without the failing files.
PerFileFailureIsolation ==
    /\ ipc \in {"Chunk", "Embed", "Index"} =>
          \A i \in 1..Len(md_files) :
              md_files[i].file_path \notin skipped =>
                  \E k \in 1..Len(processed_files) :
                      processed_files[k] = process_file(md_files[i])
    /\ ipc \in {"Embed", "Index", "Done"} =>
          chunk_dicts = ChunksOfFiles(md_files, skipped)

\* the first file failed in extraction, the second in chunking, and the
\* third was chunked all the same
PerFileFailureIsolationWitness ==
    /\ ipc = "Embed"
    /\ Len(md_files) = 3
    /\ Len(processed_files) = 2
    /\ md_files[1].file_path \in skipped
    /\ processed_files[1].file_path \in skipped
    /\ processed_files[2].file_path \notin skipped
    /\ chunk_dicts # <<>>

\* the chunk dict is the source of one of the embedded chunks
IsEmbedded(chunk_dict) ==
    \E k \in 1..Len(chunks_with_embeddings) :
        /\ chunks_with_embeddings[k].source_file = chunk_dict.source_file
        /\ chunks_with_embeddings[k].passage_id = chunk_dict.passage_id
        /\ chunks_with_embeddings[k].text = chunk_dict.text

\* the chunk dict is the source of one of the points of the collection
IsUpserted(chunk_dict) ==
    \E k \in 1..Len(collection) :
        /\ collection[k].payload.source_file = chunk_dict.source_file
        /\ collection[k].payload.passage_id = chunk_dict.passage_id
        /\ collection[k].payload.text = chunk_dict.text

\* the positions in chunk_dicts of the chunks of a logged batch
BatchRange(entry) == entry.first..(entry.first + entry.size - 1)

\* C18: when the processing of an embedding batch fails none of that
\* batch's chunks is in the embedded output or is upserted, every chunk of
\* a batch whose processing succeeded is in the embedded output, and the
\* remaining batches are still attempted in order.
EmbeddingBatchIsolation ==
    /\ \A k \in 1..Len(embedLog) :
          /\ embedLog[k].first = (k - 1) * batch_size + 1
          /\ embedLog[k].failed =>
                \A i \in BatchRange(embedLog[k]) :
                    ~IsEmbedded(chunk_dicts[i]) /\ ~IsUpserted(chunk_dicts[i])
          /\ ~embedLog[k].failed =>
                \A i \in BatchRange(embedLog[k]) : IsEmbedded(chunk_dicts[i])
    /\ ipc = "Index" =>
          \A i \in 1..Len(chunk_dicts) :
              \E k \in 1..Len(embedLog) : i \in BatchRange(embedLog[k])

RECURSIVE SucceededTotal(_)
\* the number of chunks in the logged batches whose upsert succeeded
SucceededTotal(log) ==
    IF log = <<>> THEN 0
    ELSE (IF Head(log).success THEN Head(log).size ELSE 0) + SucceededTotal(Tail(log))

\* C19: when the upsert of a batch fails the later batches are still
\* upserted, and chunks_indexed is the total number of chunks in the batches
\* whose upsert succeeded, which is the number of points the run added.
UpsertBatchIsolation ==
    /\ \A k \in 1..Len(upsertLog) : upsertLog[k].first = (k - 1) * batch_size + 1
    /\ indexed_count = SucceededTotal(upsertLog)
    /\ Len(collection) = SucceededTotal(upsertLog)
    /\ (IndexingReturned /\ chunks_with_embeddings # <<>>) =>
          /\ stats.chunks_indexed = SucceededTotal(upsertLog)
          /\ stats.chunks_indexed = Len(collection)
          /\ \A i \in 1..Len(chunks_with_embeddings) :
                \E k \in 1..Len(upsertLog) : i \in BatchRange(upsertLog[k])

\* a run that returned after an upsert had failed and a later one succeeded
UpsertBatchIsolationWitness ==
    /\ IndexingReturned
    /\ \E k \in 1..Len(upsertLog) : \E l \in (k + 1)..Len(upsertLog) :
          ~upsertLog[k].success /\ upsertLog[l].success
    /\ stats.chunks_indexed > 0
    /\ stats.chunks_indexed < stats.chunks_embedded

\* C20: whenever every embedding-provider call and every upsert call of a
\* run succeeds, the returned stats have chunks_embedded = chunks_created and
\* chunks_indexed = chunks_created.
AllCallsSucceedAllIndexed ==
    (/\ IndexingReturned
     /\ \A k \in 1..Len(embedLog) : embedLog[k].provider = "ok"
     /\ \A k \in 1..Len(upsertLog) : upsertLog[k].success)
        => /\ stats.chunks_embedded = stats.chunks_created
           /\ stats.chunks_indexed = stats.chunks_created

\* the calls of one stage that the run has made
CallsOf(stage) == Cardinality({i \in DOMAIN trace : trace[i] = stage})

\* the position of a stage in the pipeline
StageRank(stage) ==
    CASE stage = "extract" -> 1
      [] stage = "chunk" -> 2
      [] stage = "embed" -> 3
      [] stage = "upsert" -> 4

\* the number of batches of n items
BatchCount(n, size) == (n + size - 1) \div size

\* C21: within a run the calls of the four stages never interleave: a chunking
\* call is made only after every listed file has been tried, an embedding call
\* only after every extracted file has been chunked or skipped, an upsert call
\* only after every embedding batch has been attempted; and a stage that
\* yields nothing ends the run, no later stage being entered or called.
StagesStrictlySequential ==
    /\ \A i, j \in DOMAIN trace :
          i < j => StageRank(trace[i]) <= StageRank(trace[j])
    /\ CallsOf("chunk") > 0 => CallsOf("extract") = Len(md_files)
    /\ CallsOf("embed") > 0 => CallsOf("chunk") = Len(processed_files)
    /\ CallsOf("upsert") > 0 =>
          CallsOf("embed") = BatchCount(Len(chunk_dicts), batch_size)
    /\ (ipc \in {"Chunk", "Embed", "Index"} \/ CallsOf("chunk") > 0) =>
          processed_files # <<>>
    /\ (ipc \in {"Embed", "Index"} \/ CallsOf("embed") > 0) => chunk_dicts # <<>>
    /\ (ipc = "Index" \/ CallsOf("upsert") > 0) => chunks_with_embeddings # <<>>

\* a finished run that made several calls in every stage
StagesStrictlySequentialWitness ==
    /\ ipc = "Done"
    /\ CallsOf("extract") >= 2
    /\ CallsOf("chunk") >= 2
    /\ CallsOf("embed") >= 2
    /\ CallsOf("upsert") >= 2

\* the per-item failures of the run: the files skipped in extraction or in
\* chunking, the embedding batches and the upsert batches that failed
FailureCount ==
    Cardinality(skipped)
    + Cardinality({k \in DOMAIN embedLog : embedLog[k].failed})
    + Cardinality({k \in DOMAIN upsertLog : ~upsertLog[k].success})

\* C23: the stats a run returns report every per-item failure: the errors
\* list holds an entry for each file that failed extraction or chunking and
\* for each embedding batch and upsert batch that failed.
StatsReportEveryFailure ==
    ipc = "Done" => Len(stats.errors) >= FailureCount

\* the listed files whose extraction failed
FailedExtraction ==
    {i \in DOMAIN md_files :
        /\ md_files[i].file_path \in skipped
        /\ \A k \in DOMAIN processed_files :
              processed_files[k].file_path # md_files[i].file_path}

\* C30: in the stats a run returns, whatever failed, 0 <= chunks_indexed <=
\* chunks_embedded <= chunks_created, files_processed is the number of listed
\* files whose extraction succeeded, and the counter of a stage in which no
\* call was made is 0.
StatsCountersOrdered ==
    ipc = "Done" =>
        /\ 0 <= stats.chunks_indexed
        /\ stats.chunks_indexed <= stats.chunks_embedded
        /\ stats.chunks_embedded <= stats.chunks_created
        /\ stats.files_processed = Len(md_files) - Cardinality(FailedExtraction)
        /\ CallsOf("extract") = 0 => stats.files_processed = 0
        /\ CallsOf("chunk") = 0 => stats.chunks_created = 0
        /\ CallsOf("embed") = 0 => stats.chunks_embedded = 0
        /\ CallsOf("upsert") = 0 => stats.chunks_indexed = 0

\* a run that lost a file in extraction, a chunk in embedding and a batch in
\* the upsert, so that the four counters differ
StatsCountersOrderedWitness ==
    /\ ipc = "Done"
    /\ FailedExtraction # {}
    /\ 0 < stats.chunks_indexed
    /\ stats.chunks_indexed < stats.chunks_embedded
    /\ stats.chunks_embedded < stats.chunks_created

\* the non-blank lines of a file that precede its first second-level heading
\* (all its non-blank lines when it has no such heading)
Preamble(file) ==
    LET headings == {i \in DOMAIN file.lines : IsSectionHeading(file.lines[i])}
        first == IF headings = {} THEN Len(file.lines) + 1 ELSE Min(headings)
    IN  {file.lines[i] : i \in {j \in 1..(first - 1) : ~IsBlank(file.lines[j])}}

\* C27: what a file holds before its first second-level heading is in no
\* section extracted from it and in no chunk the run produces for it, also
\* when the file has no second-level heading at all.
FrontMatterDiscarded ==
    /\ \A k \in DOMAIN processed_files :
          \A i \in DOMAIN md_files :
             md_files[i].file_path = processed_files[k].file_path =>
                \A line \in Preamble(md_files[i]) :
                   \A n \in DOMAIN processed_files[k].sections :
                      ~Contains(processed_files[k].sections[n].section_content, line)
    /\ \A k \in DOMAIN chunk_dicts :
          \A i \in DOMAIN md_files :
             md_files[i].file_path = chunk_dicts[k].source_file =>
                \A line \in Preamble(md_files[i]) :
                   ~Contains(chunk_dicts[k].text, line)

\* s ends with the ellipsis marker
EndsWithEllipsis(s) == Len(s) >= 3 /\ Slice(s, Len(s) - 2, Len(s)) = "..."

\* the first n characters of text end at a whitespace boundary: at the start
\* or the end of the text, or next to a whitespace character
AtWhitespaceBoundary(text, n) ==
    \/ n = 0
    \/ n >= Len(text)
    \/ CharAt(text, n) \in Whitespace
    \/ CharAt(text, n + 1) \in Whitespace

\* C24: truncate_snippet returns a text of at most max_length characters
\* unchanged; otherwise its result has at most max_length characters, ends
\* with "...", and what precedes the marker is a prefix of the text that ends
\* at a whitespace boundary, never inside a word.
SnippetCutAtWordBoundary ==
    tsIn # None =>
        LET text == tsIn[1].text
            max_length == tsIn[1].max_length
            stem == Slice(tsOut, 1, Len(tsOut) - 3)
        IN  IF Len(text) <= max_length THEN tsOut = text
            ELSE /\ Len(tsOut) <= max_length
                 /\ EndsWithEllipsis(tsOut)
                 /\ stem = Slice(text, 1, Len(stem))
                 /\ AtWhitespaceBoundary(text, Len(stem))

\* C25: retrieve_and_rerank returns one Source per returned chunk, in the
\* same order, carrying the chunk's passage identifier, chapter, section and
\* page, whatever payload the index returned.
SourcePerChunk ==
    (pc = "Generating" /\ request.mode = BOOK_WIDE) =>
        /\ Len(sources) = Len(chunks)
        /\ \A i \in 1..Len(chunks) :
              i <= Len(sources) =>
                /\ "passage_id" \in DOMAIN chunks[i].payload =>
                      sources[i].passage_id = chunks[i].payload.passage_id
                /\ "chapter" \in DOMAIN chunks[i].payload =>
                      sources[i].chapter = chunks[i].payload.chapter
                /\ "section" \in DOMAIN chunks[i].payload =>
                      sources[i].section = chunks[i].payload.section
                /\ "page" \in DOMAIN chunks[i].payload =>
                      sources[i].page = chunks[i].payload.page

\* the answer holds the opening of a citation marker: of the bracketed
\* passage identifier, of a bracketed section, or the selected-text sentinel
HasCitationMarker(answer) ==
    \E opening \in {"[ch", "[sec", "[selected-text]"} : Contains(answer, opening)

PointsWith(passage_id) ==
    {k \in DOMAIN collection : collection[k].payload.passage_id = passage_id}

\* C22: every chunk gets a storage id that no chunk of the same or of an
\* earlier run has; hence a second run over the same corpus, every call of
\* both runs succeeding and nothing deleted in between, leaves twice as many
\* points in the index, two for each passage identifier; and after a
\* deletion of the collection the index holds no point.
ReindexDoublesEveryPassage ==
    /\ \A i, j \in DOMAIN chunks_with_embeddings :
          i # j => chunks_with_embeddings[i].id # chunks_with_embeddings[j].id
    /\ \A k \in DOMAIN runLog :
          runLog[k].op = "index" =>
             \A i \in DOMAIN chunks_with_embeddings :
                chunks_with_embeddings[i].id \notin runLog[k].ids
    /\ (ipc = "Done" /\ FailedCalls = 0 /\ Len(runLog) = 1 /\ runLog[1].op = "index"
           /\ runLog[1].failed = 0) =>
          /\ Len(collection) = 2 * runLog[1].points
          /\ \A k \in DOMAIN collection :
                Cardinality(PointsWith(collection[k].payload.passage_id)) = 2
    /\ (ipc = "Returned" /\ runLog # <<>> /\ runLog[Len(runLog)].op = "clear"
           /\ runLog[Len(runLog)].success) =>
          collection = <<>>

\* C28: answering a question never changes the vector index: a step that
\* changes the collection is an upsert of stage 4 of an indexing run or a
\* deletion of the collection, so every step of the retrieval and answer
\* path leaves the collection as the request found it
RetrievalPathReadOnly ==
    [][collection' # collection =>
          \/ ipc = "Index" /\ pc = "Idle"
          \/ ipc = "Returned" /\ pc = "Idle" /\ collection' = <<>>]_vars

\* a book-wide question has been searched and answered in front of a
\* collection that holds points
RetrievalPathReadOnlyWitness ==
    /\ pc = "Answered"
    /\ request.mode = BOOK_WIDE
    /\ searchCalls = 1
    /\ collection = IndexedPoints(FileIntro)

\* C29: two requests served side by side do not affect each other: the
\* response a handler returns, whatever the other handler has done in the
\* meantime, is the response the same request gets on its own with the same
\* outcomes of its outside calls; the client is the only thing they share
ConcurrentRequestsIndependent ==
    \A h \in Handlers :
        /\ handlers[h].pc \in Terminal =>
              handlers[h].response =
                  AnswerAlone(handlers[h].request, handlers[h].embedded,
                              handlers[h].searched, handlers[h].generated)
        /\ handlers[h].pc = "Rejected" => handlers[h].response = None
        /\ handlers[h].client # None => handlers[h].client = qdrant_client

\* both handlers have answered, on different requests with different
\* contexts; the second request came while the first was being served, and
\* the second handler was the one that created the client
ConcurrentRequestsIndependentWitness ==
    /\ handlers[1].pc = "Answered"
    /\ handlers[2].pc = "Answered"
    /\ handlers[1].request.mode = BOOK_WIDE
    /\ handlers[2].request.mode = SELECTED_TEXT
    /\ handlers[1].context # handlers[2].context
    /\ handlers[2].alongside
    /\ qdrant_client = Some(2)

====
